---- MODULE Spec2Model ----
(***************************************************************************)
(* Server-side control plane of image-socket: the WebSocketServer session  *)
(* list, the ClientModel rows and the ImageServerBridge arbitration of the *)
(* single active client, frame forwarding and frame-rate control.          *)
(*                                                                         *)
(* The server is a single-threaded Qt reactor: every slot runs to          *)
(* completion, so each slot is one atomic action.  Nested calls            *)
(* (setActiveClient -> setFps -> sendControlToClient -> ...) are operators *)
(* over a record `b` holding the bridge, model and server fields.          *)
(***************************************************************************)
EXTENDS Integers, Sequences, FiniteSets, TLC

\* ------------------------------------------------------------- bounds
\* Number of session identifiers the UUID generator hands out in a run.
MaxIds == 3
\* The same, in runs where the sessions send data or control frames.
MaxDataIds == 2
\* Last wall-clock instant (ms) at which a data frame is handled.
MaxNow == 3000
\* The same, in runs where frames arrive milliseconds apart.
MaxWindowNow == 3100
\* Number of times a client gets past the entry test of connectToServer.
MaxConnects == 2
\* The same, in runs where frames are exchanged over the connection.
MaxIoConnects == 1
\* Number of disconnectFromServer calls the application makes.
MaxDisconnects == 1
\* Number of connectToServer calls in runs of the reconnect loop alone.
MaxRetries == 8
\* Length of the payloads handed to sendFrame.
MaxPayloadLen == 2

\* ------------------------------------------------- values and inputs
\* The null/empty QString used as "no client".
EmptyId == 0
\* An identifier that no session ever has ("test-client-1" in the tests).
BogusId == 99
\* Wall clock at construction (ms since epoch, never 0).
StartMs == 1000
\* Increments of the wall clock between two handled data frames.
ClockSteps == {1000}
\* Spacings (ms) of data frames in runs that exercise the measurement
\* window: a stream of about 30 frames a second, and a pause.
FrameGaps == {33, 1000}
\* Frame rates a caller passes to setFps / setConfiguredFps.
FpsValues == {24, 30}
\* Contents of the QSettings key "fps" before construction (0: absent).
StoredFpsValues == {0, 24, 30}
\* Aliases a peer reports in an ALIAS message ("" is an unset field;
\* "client_1" is what aliasAt reports for session 1 while it has no alias).
AliasValues == {"", "cam", "client_1"}
\* Decoded image payloads.
FrameValues == {"img1", "img2"}
\* Control message types a peer sends; "MALFORMED" does not parse.
PeerMsgTypes == {"ALIAS", "SET_FPS", "MALFORMED"}

\* First bytes of a binary message: control prefix, explicit image prefix, a
\* byte that is neither a prefix nor the start of a JPEG stream, and 0xFF,
\* the first byte of every JPEG stream.
ControlPrefix == 1
ImagePrefix == 0
OtherByte == 7
JpegFirstByte == 255
\* first of the empty message, which has no first byte.
NoByte == -1

\* A control message as far as the server reads it: type, alias, fps.
ControlMessage(type, alias, fps) == [type |-> type, alias |-> alias, fps |-> fps]

\* A binary message: its first byte and what the bytes after it are: a
\* serialized ControlMessage ("proto"), bytes that complete (after 0xFF) or
\* form (after any other byte) a JPEG stream of image `img` ("jpeg"), or
\* bytes that are neither ("garbage").
RawMessage(first, kind, msg, img) ==
    [first |-> first, kind |-> kind, msg |-> msg, img |-> img]

NoMessage == ControlMessage("UNKNOWN", "", 0)

\* Binary messages a peer puts on a connection.
RawMessages ==
    {RawMessage(NoByte, "empty", NoMessage, "")}
    \cup {RawMessage(ControlPrefix, "proto", ControlMessage("ALIAS", a, 0), "") :
             a \in AliasValues}
    \cup {RawMessage(ControlPrefix, "proto", ControlMessage("SET_FPS", "", 24), "")}
    \cup {RawMessage(f, "garbage", NoMessage, "") :
             f \in {ControlPrefix, ImagePrefix, OtherByte}}
    \cup {RawMessage(f, "jpeg", NoMessage, img) :
             f \in {ImagePrefix, JpegFirstByte}, img \in FrameValues}
    \cup {RawMessage(f, "jpeg", NoMessage, "img1") :
             f \in {ControlPrefix, OtherByte}}

\* No binary message: what a slot that is handed none has received.
NoRaw == RawMessage(NoByte, "none", NoMessage, "")

\* A signal emitted by a slot: name, client id, integer and string argument.
Sig(name, id, n, s) == [sig |-> name, id |-> id, n |-> n, s |-> s]

\* ---------------------------------------------------- ClientModel
ClientEntry(id, status) ==
    [id |-> id, status |-> status, alias |-> "",
     configuredFps |-> 0, measuredFps |-> 0, lastFrameTsMs |-> 0,
     framesInWindow |-> 0, windowStartMs |-> 0]

\* Row of the first entry with this id, 0-based; -1 when absent.
indexOfClient(clients, id) ==
    IF \E i \in 1..Len(clients) : clients[i].id = id
    THEN (CHOOSE i \in 1..Len(clients) :
             /\ clients[i].id = id
             /\ \A j \in 1..(i - 1) : clients[j].id # id) - 1
    ELSE -1

rowCount(clients) == Len(clients)

addClient(clients, id, status) ==
    IF indexOfClient(clients, id) # -1 THEN clients
    ELSE Append(clients, ClientEntry(id, status))

removeClient(clients, id) ==
    LET idx == indexOfClient(clients, id) IN
    IF idx = -1 THEN clients
    ELSE SubSeq(clients, 1, idx) \o SubSeq(clients, idx + 2, Len(clients))

setClientStatus(clients, id, status) ==
    LET idx == indexOfClient(clients, id) IN
    IF idx = -1 THEN clients
    ELSE [clients EXCEPT ![idx + 1].status = status]

setClientAlias(clients, id, alias) ==
    LET idx == indexOfClient(clients, id) IN
    IF idx = -1 THEN clients
    ELSE [clients EXCEPT ![idx + 1].alias = alias]

\* Mutation: the rate is written to every row.
setClientConfiguredFps_AllRows(clients, id, fps) ==
    [i \in 1..Len(clients) |-> [clients[i] EXCEPT !.configuredFps = fps]]

setClientConfiguredFps(clients, id, fps) ==
    LET idx == indexOfClient(clients, id) IN
    IF idx = -1 THEN clients
    ELSE [clients EXCEPT ![idx + 1].configuredFps = fps]

\* Mutation: rows counted from the end of the list.
clientIdAt_FromEnd(clients, index) ==
    IF index < 0 \/ index >= Len(clients) THEN EmptyId
    ELSE clients[Len(clients) - index].id

clientIdAt(clients, index) ==
    IF index < 0 \/ index >= Len(clients) THEN EmptyId
    ELSE clients[index + 1].id

\* The stored alias, or the fallback "client_<start of the id>".
aliasAt(clients, index) ==
    IF index < 0 \/ index >= Len(clients) THEN ""
    ELSE IF clients[index + 1].alias # "" THEN clients[index + 1].alias
    ELSE "client_" \o ToString(clients[index + 1].id)

configuredFpsAt(clients, index) ==
    IF index < 0 \/ index >= Len(clients) THEN 0
    ELSE clients[index + 1].configuredFps

measuredFpsAt(clients, index) ==
    IF index < 0 \/ index >= Len(clients) THEN 0
    ELSE clients[index + 1].measuredFps

\* Mutation: the quotient is truncated, not rounded.
RoundedFps_Truncated(frames, elapsed) == (frames * 1000) \div elapsed

\* std::round of frames * 1000.0 / elapsed for elapsed > 0 (half away from 0).
RoundedFps(frames, elapsed) == (2 * frames * 1000 + elapsed) \div (2 * elapsed)

\* Mutation: the rate is published with every frame that does not open the
\* window.
recordFrameReceived_EveryFrame(clients, id, timestampMs) ==
    LET idx == indexOfClient(clients, id) IN
    IF idx = -1 THEN clients
    ELSE
      LET e0 == clients[idx + 1]
          e1 == IF e0.windowStartMs = 0
                THEN [e0 EXCEPT !.windowStartMs = timestampMs, !.framesInWindow = 0]
                ELSE e0
          e2 == [e1 EXCEPT !.framesInWindow = @ + 1, !.lastFrameTsMs = timestampMs]
          elapsed == timestampMs - e2.windowStartMs
          e3 == IF elapsed > 0
                THEN [e2 EXCEPT !.measuredFps = RoundedFps(e2.framesInWindow, elapsed),
                                !.framesInWindow = 0,
                                !.windowStartMs = timestampMs]
                ELSE e2
      IN [clients EXCEPT ![idx + 1] = e3]

\* Mutation: the frame that opens the window is not counted.
recordFrameReceived_OpenerNotCounted(clients, id, timestampMs) ==
    LET idx == indexOfClient(clients, id) IN
    IF idx = -1 THEN clients
    ELSE
      LET e0 == clients[idx + 1]
          e1 == IF e0.windowStartMs = 0
                THEN [e0 EXCEPT !.windowStartMs = timestampMs, !.framesInWindow = -1]
                ELSE e0
          e2 == [e1 EXCEPT !.framesInWindow = @ + 1, !.lastFrameTsMs = timestampMs]
          elapsed == timestampMs - e2.windowStartMs
          e3 == IF elapsed >= 1000
                THEN [e2 EXCEPT !.measuredFps = RoundedFps(e2.framesInWindow, elapsed),
                                !.framesInWindow = 0,
                                !.windowStartMs = timestampMs]
                ELSE e2
      IN [clients EXCEPT ![idx + 1] = e3]

recordFrameReceived(clients, id, timestampMs) ==
    LET idx == indexOfClient(clients, id) IN
    IF idx = -1 THEN clients
    ELSE
      LET e0 == clients[idx + 1]
          e1 == IF e0.windowStartMs = 0
                THEN [e0 EXCEPT !.windowStartMs = timestampMs, !.framesInWindow = 0]
                ELSE e0
          e2 == [e1 EXCEPT !.framesInWindow = @ + 1, !.lastFrameTsMs = timestampMs]
          elapsed == timestampMs - e2.windowStartMs
          e3 == IF elapsed >= 1000
                THEN [e2 EXCEPT !.measuredFps = RoundedFps(e2.framesInWindow, elapsed),
                                !.framesInWindow = 0,
                                !.windowStartMs = timestampMs]
                ELSE e2
      IN [clients EXCEPT ![idx + 1] = e3]

\* ------------------------------------------------ WebSocketServer
\* The text of an identifier (a QString already in the source).
IdString(id) == IF id = EmptyId THEN "" ELSE ToString(id)

\* ClientSession::sendControlMessage: prefix 0x01 and hand the frame to the
\* socket.  `ok` is whether the transport accepts the write; the call returns
\* nothing, so the caller never learns it.
sendControlMessage(b, id, type, fps, ok) ==
    [b EXCEPT !.sent = Append(@, [to |-> id, type |-> type, fps |-> fps, ok |-> ok])]

\* WebSocketServer::sendControlToClient: true iff a session has this id.
sendControlToClient(b, clientId, type, fps, ok) ==
    IF \E i \in 1..Len(b.sessions) : b.sessions[i] = clientId
    THEN [ret |-> TRUE, b |-> sendControlMessage(b, clientId, type, fps, ok)]
    ELSE [ret |-> FALSE, b |-> b]

\* --------------------------------------------- ImageServerBridge
Emit(b, s) == [b EXCEPT !.emitted = Append(@, s)]

setConnectionState(b, state) ==
    IF b.connState = state THEN b
    ELSE Emit([b EXCEPT !.connState = state], Sig("connectionStateChanged", EmptyId, 0, state))

setStatusMessage(b, msg) ==
    IF b.statusMsg = msg THEN b
    ELSE Emit([b EXCEPT !.statusMsg = msg], Sig("statusMessageChanged", EmptyId, 0, msg))

setServerState(b, state) ==
    IF b.serverState = state THEN b
    ELSE Emit([b EXCEPT !.serverState = state], Sig("serverStateChanged", EmptyId, 0, state))

ServerStarted == 1000
ServerStopped == 1001
ServerStartFailed == 1002

\* WebSocketServer::start: refused when a listener exists; otherwise a
\* listener is created and kept iff it binds (`bound`), and a failure to
\* bind is reported through serverError, which the bridge re-emits.
WebSocketServer_start(b, bound) ==
    IF b.listener # "null" THEN [ret |-> FALSE, b |-> b]
    ELSE IF ~bound
         THEN [ret |-> FALSE,
               b |-> Emit(b, Sig("eventOccurred", EmptyId, ServerStartFailed, ""))]
         ELSE [ret |-> TRUE, b |-> [b EXCEPT !.listener = "listening"]]

\* WebSocketServer::stop: the listener is closed and deleted.  The sessions
\* and their sockets are children of the WebSocketServer object, not of the
\* listener, and stay.
WebSocketServer_stop(b) == [b EXCEPT !.listener = "null"]

\* ImageServerBridge::start.
start(b, bound) ==
    LET b1 == setStatusMessage(setServerState(b, "Starting"), "Starting")
        r == WebSocketServer_start(b1, bound)
    IN IF ~r.ret
       THEN Emit(setStatusMessage(setServerState(r.b, "Error"), "Failed to start"),
                 Sig("eventOccurred", EmptyId, ServerStartFailed, ""))
       ELSE Emit(setStatusMessage(setServerState(r.b, "Running"), "Running"),
                 Sig("eventOccurred", EmptyId, ServerStarted, ""))

\* ImageServerBridge::stop.
stop(b) ==
    LET b1 == setStatusMessage(setServerState(b, "Stopping"), "Stopping")
        b2 == Emit(WebSocketServer_stop(b1), Sig("eventOccurred", EmptyId, ServerStopped, ""))
    IN setStatusMessage(setServerState(b2, "Idle"), "Stopped")

\* Mutation: the current rate is recorded before the active client is checked.
setFps_RecordsFirst(b, fps, ok) ==
    LET b0 == [b EXCEPT !.currentFps = fps] IN
    IF b0.active = EmptyId
    THEN Emit(b0, Sig("FpsFailedNoClient", EmptyId, 0, ""))
    ELSE
      LET r == sendControlToClient(b0, b0.active, "SET_FPS", fps, ok) IN
      IF ~r.ret
      THEN Emit(r.b, Sig("FpsSendError", b0.active, fps, ""))
      ELSE
        LET b1 == Emit(r.b, Sig("currentFpsChanged", EmptyId, fps, ""))
            b2 == [b1 EXCEPT !.clients = setClientConfiguredFps(@, b0.active, fps)]
        IN Emit(b2, Sig("FpsApplied", b0.active, fps, ""))

setFps(b, fps, ok) ==
    IF b.active = EmptyId
    THEN Emit(b, Sig("FpsFailedNoClient", EmptyId, 0, ""))
    ELSE
      LET r == sendControlToClient(b, b.active, "SET_FPS", fps, ok) IN
      IF ~r.ret
      THEN Emit(r.b, Sig("FpsSendError", b.active, fps, ""))
      ELSE
        LET b1 == Emit([r.b EXCEPT !.currentFps = fps],
                       Sig("currentFpsChanged", EmptyId, fps, ""))
            b2 == [b1 EXCEPT !.clients = setClientConfiguredFps(@, b.active, fps)]
        IN Emit(b2, Sig("FpsApplied", b.active, fps, ""))

\* Mutation: the previous active client keeps its status.
setActiveClient_NoDemote(b, clientId, ok) ==
    IF b.active = clientId THEN b
    ELSE
      LET previousClient == b.active
          b2 == [b EXCEPT !.active = clientId]
          b3 == [b2 EXCEPT !.clients = setClientStatus(@, clientId, "Active")]
          b4 == setFps(b3, b3.configuredFps, ok)
          aliasRaw == aliasAt(b4.clients, indexOfClient(b4.clients, clientId))
          alias == IF aliasRaw = "" THEN IdString(clientId) ELSE aliasRaw
          b5 == Emit(b4, Sig("ClientBecameActive", clientId, previousClient, alias))
      IN Emit(b5, Sig("activeClientChanged", clientId, 0, ""))

setActiveClient(b, clientId, ok) ==
    IF b.active = clientId THEN b
    ELSE
      LET b1 == IF b.active # EmptyId
                THEN [b EXCEPT !.clients = setClientStatus(@, b.active, "Connected")]
                ELSE b
          previousClient == b.active
          b2 == [b1 EXCEPT !.active = clientId]
          b3 == [b2 EXCEPT !.clients = setClientStatus(@, clientId, "Active")]
          b4 == setFps(b3, b3.configuredFps, ok)
          aliasRaw == aliasAt(b4.clients, indexOfClient(b4.clients, clientId))
          alias == IF aliasRaw = "" THEN IdString(clientId) ELSE aliasRaw
          b5 == Emit(b4, Sig("ClientBecameActive", clientId, previousClient, alias))
      IN Emit(b5, Sig("activeClientChanged", clientId, 0, ""))

setConfiguredFps(b, fps, ok) ==
    IF b.configuredFps = fps THEN b
    ELSE
      LET b1 == [b EXCEPT !.configuredFps = fps, !.settings = fps]
          b2 == Emit(b1, Sig("configuredFpsChanged", EmptyId, fps, ""))
      IN IF b2.active # EmptyId THEN setFps(b2, b2.configuredFps, ok) ELSE b2

\* Mutation: every admitted client is promoted, whoever is active.
onClientConnected_AlwaysPromote(b, clientId, ok) ==
    LET b1 == [b EXCEPT !.clients = addClient(@, clientId, "Connected")]
        b2 == IF rowCount(b1.clients) > 0
              THEN setStatusMessage(setConnectionState(b1, "ClientsConnected"),
                                    "Clients connected")
              ELSE b1
        b3 == setActiveClient(b2, clientId, ok)
    IN IF b3.configuredFps > 0 /\ b3.active = clientId
       THEN setFps(b3, b3.configuredFps, ok)
       ELSE b3

onClientConnected(b, clientId, ok) ==
    LET b1 == [b EXCEPT !.clients = addClient(@, clientId, "Connected")]
        b2 == IF rowCount(b1.clients) > 0
              THEN setStatusMessage(setConnectionState(b1, "ClientsConnected"),
                                    "Clients connected")
              ELSE b1
        b3 == IF b2.active = EmptyId THEN setActiveClient(b2, clientId, ok) ELSE b2
        idx == indexOfClient(b3.clients, clientId)
    IN IF b3.configuredFps > 0 /\ b3.active = clientId
       THEN setFps(b3, b3.configuredFps, ok)
       ELSE IF idx >= 0
                 /\ configuredFpsAt(b3.clients, idx) > 0
                 /\ b3.active = clientId
            THEN setFps(b3, configuredFpsAt(b3.clients, idx), ok)
            ELSE b3

\* Mutation: the producer is announced on every control message that parses.
onControlMessageReceived_AnyType(b, clientId, msg) ==
    IF msg.type = "MALFORMED" THEN b
    ELSE
      LET b2 == Emit(b, Sig("ClientConnected", clientId, 0, msg.alias))
      IN Emit(b2, Sig("clientConnectedWithAlias", clientId, 0, msg.alias))

\* Mutation: a session is announced only when its alias changes.
onControlMessageReceived_AnnounceOnChange(b, clientId, msg) ==
    IF msg.type = "MALFORMED" THEN b
    ELSE IF msg.type = "ALIAS" /\ msg.alias # ""
    THEN
      LET lastAlias == aliasAt(b.clients, indexOfClient(b.clients, clientId))
      IN IF msg.alias # lastAlias
         THEN LET c == [b EXCEPT !.clients = setClientAlias(@, clientId, msg.alias)]
                  b1 == IF clientId = b.active
                        THEN Emit(c, Sig("activeClientAliasChanged", EmptyId, 0, msg.alias))
                        ELSE c
                  b2 == Emit(b1, Sig("ClientConnected", clientId, 0, msg.alias))
              IN Emit(b2, Sig("clientConnectedWithAlias", clientId, 0, msg.alias))
         ELSE b
    ELSE b

\* msg = [type, alias, fps]; type "MALFORMED" is a payload that does not parse.
onControlMessageReceived(b, clientId, msg) ==
    IF msg.type = "MALFORMED" THEN b
    ELSE IF msg.type = "ALIAS" /\ msg.alias # ""
    THEN
      LET lastAlias == aliasAt(b.clients, indexOfClient(b.clients, clientId))
          b1 == IF msg.alias # lastAlias
                THEN LET c == [b EXCEPT !.clients = setClientAlias(@, clientId, msg.alias)]
                     IN IF clientId = b.active
                        THEN Emit(c, Sig("activeClientAliasChanged", EmptyId, 0, msg.alias))
                        ELSE c
                ELSE b
          b2 == Emit(b1, Sig("ClientConnected", clientId, 0, msg.alias))
      IN Emit(b2, Sig("clientConnectedWithAlias", clientId, 0, msg.alias))
    ELSE b

\* Mutation: the reference is cleared when the active client leaves, and
\* nobody is promoted.
onSessionDisconnected_NoPromote(b, clientId, ok) ==
    LET b1 == [b EXCEPT !.clients = removeClient(@, clientId)]
        b2 == Emit(b1, Sig("ClientDisconnected", clientId, 0, IdString(clientId)))
    IN IF rowCount(b2.clients) = 0 \/ b2.active = clientId
       THEN Emit([b2 EXCEPT !.active = EmptyId], Sig("NoClientsAvailable", EmptyId, 0, ""))
       ELSE b2

onSessionDisconnected(b, clientId, ok) ==
    LET idx == indexOfClient(b.clients, clientId)
        alias == IF idx >= 0 THEN aliasAt(b.clients, idx) ELSE ""
        shown == IF alias = "" THEN IdString(clientId) ELSE alias
        b1 == [b EXCEPT !.clients = removeClient(@, clientId)]
        b2 == Emit(b1, Sig("ClientDisconnected", clientId, 0, shown))
        b3 == Emit(b2, Sig("clientDisconnectedWithAlias", clientId, 0, shown))
    IN IF rowCount(b3.clients) = 0
       THEN LET c1 == [b3 EXCEPT !.active = EmptyId]
                c2 == setConnectionState(c1, "NoClients")
                c3 == setStatusMessage(c2, "No clients available")
                c4 == Emit(c3, Sig("NoClientsAvailable", EmptyId, 0, ""))
            IN Emit(c4, Sig("connectionLost", EmptyId, 0, ""))
       ELSE IF b3.active = clientId
       THEN setActiveClient(b3, clientIdAt(b3.clients, 0), ok)
       ELSE IF b3.active = EmptyId /\ rowCount(b3.clients) = 1
       THEN setActiveClient(b3, clientIdAt(b3.clients, 0), ok)
       ELSE b3

\* Mutation: every client's frames are forwarded.
onFrameReceived_Unfiltered(b, clientId, frame, now) ==
    LET b1 == [b EXCEPT !.clients = recordFrameReceived(@, clientId, now)]
        b3 == [b1 EXCEPT !.lastFrame = frame, !.frameId = @ + 1]
        b4 == Emit(b3, Sig("frameIdChanged", EmptyId, b3.frameId, ""))
    IN Emit(b4, Sig("newFrameReady", clientId, 0, frame))

onFrameReceived(b, clientId, frame, now) ==
    LET b1 == [b EXCEPT !.clients = recordFrameReceived(@, clientId, now)] IN
    IF clientId # b1.active THEN b1
    ELSE
      LET b2 == setStatusMessage(setConnectionState(b1, "ReceivingFrames"),
                                 "Receiving frames")
          b3 == [b2 EXCEPT !.lastFrame = frame, !.frameId = @ + 1]
          b4 == Emit(b3, Sig("frameIdChanged", EmptyId, b3.frameId, ""))
          idx == indexOfClient(b4.clients, clientId)
          measured == measuredFpsAt(b4.clients, idx)
          b5 == IF idx >= 0 /\ measured # b4.activeMeasured
                THEN Emit([b4 EXCEPT !.activeMeasured = measured],
                          Sig("activeClientMeasuredFpsChanged", EmptyId, measured, ""))
                ELSE b4
      IN Emit(b5, Sig("newFrameReady", clientId, 0, frame))

\* WebSocketServer::onNewConnection for the session with the fresh id.
onNewConnection(b, id, ok) ==
    LET b1 == [b EXCEPT !.sessions = Append(@, id)]
        b2 == onClientConnected(b1, id, ok)
    IN sendControlMessage(b2, id, "REQUEST_ALIAS", 0, ok)

\* WebSocketServer::onSessionDisconnected, reached from the socket's
\* disconnected signal.
serverSessionDisconnected(b, clientId, ok) ==
    IF \E i \in 1..Len(b.sessions) : b.sessions[i] = clientId
    THEN LET i == CHOOSE k \in 1..Len(b.sessions) :
                      /\ b.sessions[k] = clientId
                      /\ \A j \in 1..(k - 1) : b.sessions[j] # clientId
             b1 == [b EXCEPT !.sessions = SubSeq(@, 1, i - 1) \o SubSeq(@, i + 1, Len(@))]
         IN onSessionDisconnected(b1, clientId, ok)
    ELSE b

\* Mutation: bytes that are no serialized message parse as an empty one.
ParseFromArray_Lenient(raw) ==
    IF raw.kind = "proto" THEN raw.msg ELSE NoMessage

\* ControlMessage::ParseFromArray on the bytes after the prefix: the message,
\* or type "MALFORMED" when the bytes are not a serialized ControlMessage (a
\* JPEG stream starts with a tag of wire type 7 and never parses).
ParseFromArray(raw) ==
    IF raw.kind = "proto" THEN raw.msg ELSE ControlMessage("MALFORMED", "", 0)

\* QImage::loadFromData(payload, "JPEG") for the payload the session picks:
\* the bytes after an explicit 0x00 prefix, else the whole message.  The
\* result is the image, or "" when the payload is not a JPEG stream.
loadFromData(raw) ==
    IF raw.kind = "jpeg" /\ raw.first \in {ImagePrefix, JpegFirstByte}
    THEN raw.img
    ELSE ""

\* Mutation: the session forwards control payloads without parsing them.
onBinaryMessageReceived_NoParse(b, id, raw, now) ==
    LET b0 == [b EXCEPT !.received = raw] IN
    IF raw.first = NoByte THEN b0
    ELSE IF raw.first = ControlPrefix
    THEN onControlMessageReceived(
                  Emit(b0, Sig("controlMessageReceived", id, 0, raw.msg.type)),
                  id, ParseFromArray(raw))
    ELSE IF loadFromData(raw) = "" THEN b0
    ELSE onFrameReceived(Emit(b0, Sig("frameReceived", id, 0, loadFromData(raw))),
                         id, loadFromData(raw), now)

\* ClientSession::onBinaryMessageReceived, with the slots the server and the
\* bridge connect to the two signals it emits.
onBinaryMessageReceived(b, id, raw, now) ==
    LET b0 == [b EXCEPT !.received = raw] IN
    IF raw.first = NoByte THEN b0
    ELSE IF raw.first = ControlPrefix
    THEN IF ParseFromArray(raw).type = "MALFORMED" THEN b0
         ELSE onControlMessageReceived(
                  Emit(b0, Sig("controlMessageReceived", id, 0, raw.msg.type)),
                  id, ParseFromArray(raw))
    ELSE IF loadFromData(raw) = "" THEN b0
    ELSE onFrameReceived(Emit(b0, Sig("frameReceived", id, 0, loadFromData(raw))),
                         id, loadFromData(raw), now)

\* ------------------------------------------------- control codec
\* The Control Message schema: CommandType in the order UNKNOWN, PAUSE,
\* RESUME, ID, REQUEST_RESUME, SET_FPS, SET_QUALITY, SUBSCRIBE, UNSUBSCRIBE,
\* REQUEST_ALIAS, ALIAS, and the fields type, client_id, fps, quality, alias,
\* reason, timestamp_ms numbered 1..7.
CommandTypes == 0..10
SET_FPS == 5

\* Strings are sequences of bytes: "" and "cam".
CodecStrings == {<<>>, <<99, 97, 109>>}

\* The messages that are encoded: every type, numbers of one and two varint
\* bytes and absent (zero) numbers, empty and non-empty strings.
CodecMessages ==
    [type : CommandTypes, client_id : {0, 7, 300}, fps : {0, 24},
     quality : {0, 90}, alias : CodecStrings, reason : CodecStrings,
     timestamp_ms : {0, 1000}]

\* A message with no field set.
DefaultMessage ==
    [type |-> 0, client_id |-> 0, fps |-> 0, quality |-> 0, alias |-> <<>>,
     reason |-> <<>>, timestamp_ms |-> 0]

\* Mutation: only the low seven bits of a number are written.
Varint_LowBitsOnly(n) == <<n % 128>>

\* Base-128 varint of a non-negative number, low group first.
RECURSIVE Varint(_)
Varint(n) ==
    IF n < 128 THEN <<n>>
    ELSE <<(n % 128) + 128>> \o Varint(n \div 128)

\* A numeric field on the wire (wire type 0); a zero field is not written.
VarintField(number, value) ==
    IF value = 0 THEN <<>>
    ELSE Varint(number * 8) \o Varint(value)

\* A string field on the wire (wire type 2); an empty field is not written.
BytesField(number, bytes) ==
    IF bytes = <<>> THEN <<>>
    ELSE Varint(number * 8 + 2) \o Varint(Len(bytes)) \o bytes

\* ControlMessage::SerializeToString.
SerializeToString(m) ==
    VarintField(1, m.type) \o VarintField(2, m.client_id)
       \o VarintField(3, m.fps) \o VarintField(4, m.quality)
       \o BytesField(5, m.alias) \o BytesField(6, m.reason)
       \o VarintField(7, m.timestamp_ms)

\* The varint that starts at position pos, and the position after it.
RECURSIVE ReadVarint(_, _)
ReadVarint(bytes, pos) ==
    IF pos > Len(bytes) THEN [ok |-> FALSE, value |-> 0, next |-> pos]
    ELSE IF bytes[pos] < 128
    THEN [ok |-> TRUE, value |-> bytes[pos], next |-> pos + 1]
    ELSE LET r == ReadVarint(bytes, pos + 1)
         IN [ok |-> r.ok, value |-> (bytes[pos] - 128) + 128 * r.value,
             next |-> r.next]

\* The message with field `number` set from a varint; other numbers are
\* unknown fields and are skipped.
StoreVarint(m, number, value) ==
    CASE number = 1 -> [m EXCEPT !.type = value]
      [] number = 2 -> [m EXCEPT !.client_id = value]
      [] number = 3 -> [m EXCEPT !.fps = value]
      [] number = 4 -> [m EXCEPT !.quality = value]
      [] number = 7 -> [m EXCEPT !.timestamp_ms = value]
      [] OTHER -> m

StoreBytes(m, number, bytes) ==
    CASE number = 5 -> [m EXCEPT !.alias = bytes]
      [] number = 6 -> [m EXCEPT !.reason = bytes]
      [] OTHER -> m

\* The fields from position pos on, merged into m; a truncated field or a
\* wire type other than varint and length-delimited fails the parse.
RECURSIVE ParseFields(_, _, _)
ParseFields(bytes, pos, m) ==
    IF pos > Len(bytes) THEN [ok |-> TRUE, msg |-> m]
    ELSE
      LET tag == ReadVarint(bytes, pos)
          number == tag.value \div 8
          wire == tag.value % 8
          v == ReadVarint(bytes, tag.next)
      IN IF ~tag.ok \/ number = 0 \/ ~v.ok THEN [ok |-> FALSE, msg |-> m]
         ELSE IF wire = 0
         THEN ParseFields(bytes, v.next, StoreVarint(m, number, v.value))
         ELSE IF wire = 2 /\ v.next + v.value - 1 <= Len(bytes)
         THEN ParseFields(bytes, v.next + v.value,
                          StoreBytes(m, number,
                                     SubSeq(bytes, v.next, v.next + v.value - 1)))
         ELSE [ok |-> FALSE, msg |-> m]

\* ControlMessage::ParseFromArray on the bytes of a message.
ParseBytes(bytes) == ParseFields(bytes, 1, DefaultMessage)

\* An outbound control frame: the serialized message behind the prefix 0x01
\* (ClientSession::sendControlMessage,
\* WebSocketImageClient::sendControlMessage).
ControlFrame(m) == <<ControlPrefix>> \o SerializeToString(m)

\* An outbound data frame: the bytes of the payload and nothing else
\* (WebSocketImageClient::sendFrame copies them and writes the copy).
DataFrame(payload) == payload

\* Payloads handed to sendFrame: up to MaxPayloadLen bytes, each one of the
\* two prefixes, a byte that is neither, or the first byte of a JPEG stream.
PayloadBytes == {ImagePrefix, ControlPrefix, OtherByte, JpegFirstByte}

Payloads == UNION {[1..n -> PayloadBytes] : n \in 0..MaxPayloadLen}

\* Mutation: a data frame always loses its first byte.
DecodeFrame_PrefixRequired(bytes) ==
    IF bytes = <<>>
    THEN [kind |-> "none", msg |-> DefaultMessage, payload |-> <<>>]
    ELSE IF bytes[1] = ControlPrefix
    THEN LET p == ParseBytes(Tail(bytes))
         IN IF p.ok THEN [kind |-> "control", msg |-> p.msg, payload |-> <<>>]
            ELSE [kind |-> "none", msg |-> DefaultMessage, payload |-> <<>>]
    ELSE [kind |-> "data", msg |-> DefaultMessage, payload |-> Tail(bytes)]

\* What a receiver makes of the bytes of a binary message: nothing of an
\* empty one or of a control frame that does not parse, a control message
\* of one that does, a data frame of anything else, whose image payload is
\* what follows an explicit prefix 0x00, else the whole message.
DecodeFrame(bytes) ==
    IF bytes = <<>>
    THEN [kind |-> "none", msg |-> DefaultMessage, payload |-> <<>>]
    ELSE IF bytes[1] = ControlPrefix
    THEN LET p == ParseBytes(Tail(bytes))
         IN IF p.ok THEN [kind |-> "control", msg |-> p.msg, payload |-> <<>>]
            ELSE [kind |-> "none", msg |-> DefaultMessage, payload |-> <<>>]
    ELSE [kind |-> "data", msg |-> DefaultMessage,
          payload |-> IF bytes[1] = ImagePrefix THEN Tail(bytes) ELSE bytes]

\* ------------------------------------------- WebSocketImageClient
\* The execution contexts of one client object: the controlling context, the
\* thread that runs the io_context, the detached helper spawned when that
\* thread leaves run(), and the detached reconnect loop.
Threads == {"main", "io", "helper", "recon"}

\* The contexts that call connectToServer.
Callers == {"main", "recon"}

\* Control frames the server writes to a client, "garbage" for a 0x01 frame
\* that does not parse, "data" for a frame with another first byte and
\* "empty" for a message of no bytes.
ServerFrames == {"REQUEST_ALIAS", "SET_FPS", "ALIAS", "garbage", "data", "empty"}

\* One step of one context, as the client's log shows it.
CStep(op, t, ret, frame, alias, fps) ==
    [op |-> op, t |-> t, ret |-> ret, frame |-> frame, alias |-> alias, fps |-> fps]

\* return from cleanupConnection to the caller's continuation, or from
\* connectToServer to its caller.
ReturnTo(c, t, label) ==
    IF label = "c_fail"
    THEN IF t = "recon"
         THEN [c EXCEPT !.pc[t] = "r_check", !.attempt = @ + 1,
                        !.cstep = CStep("connect", t, "false", "", "", 0)]
         ELSE [c EXCEPT !.pc[t] = "idle",
                        !.cstep = CStep("connect", t, "false", "", "", 0)]
    ELSE [c EXCEPT !.pc[t] = label]

\* connectToServer returns true to its caller.
ReturnTrue(c, t) ==
    [c EXCEPT !.pc[t] = IF t = "recon" THEN "r_exit" ELSE "idle",
              !.cstep = CStep("connect", t, "true", "", "", 0)]

\* cleanupConnection, first part: take the mutex, clear running, close the
\* websocket if it is open.
cleanupConnection_lock(c, t) ==
    [c EXCEPT !.mtx = t,
              !.running = FALSE,
              !.ws = IF @ = "open" THEN "closed" ELSE @,
              !.pc[t] = "k_stop",
              !.cstep = CStep("cleanup_lock", t, "", "", "", 0)]

\* cleanupConnection, second part: stop the io_context.
cleanupConnection_stop(c, t) ==
    [c EXCEPT !.ioc = IF @ # "null" THEN "stopped" ELSE @,
              !.pc[t] = "k_join",
              !.cstep = CStep("cleanup_stop", t, "", "", "", 0)]

\* Mutation: the wait is not capped.
waitSeconds_Uncapped(attempt) ==
    2 ^ (IF attempt < 6 THEN attempt ELSE 6)

\* The reconnect loop's wait before it calls connectToServer:
\* std::min(30, 1 << std::min(attempt, 6)), in seconds.
waitSeconds(attempt) ==
    LET shift == IF attempt < 6 THEN attempt ELSE 6
        raw == 2 ^ shift
    IN IF raw < 30 THEN raw ELSE 30

\* Mutation: every teardown starts a reconnect loop.
LaunchReconnect_Unguarded(c) ==
    [c EXCEPT !.reconnecting = TRUE, !.loops = @ + 1,
              !.pc["recon"] = IF c.reconnecting THEN @ ELSE "r_check",
              !.attempt = IF c.reconnecting THEN @ ELSE 0]

\* The single-instance launch of the reconnect loop at the end of
\* cleanupConnection.
LaunchReconnect(c) ==
    IF ~c.reconnecting
    THEN [c EXCEPT !.reconnecting = TRUE, !.loops = @ + 1,
                   !.pc["recon"] = "r_check", !.attempt = 0]
    ELSE c

\* Mutation: the teardown frees the stream and the io_context on whichever
\* thread it runs.
cleanupConnection_finish_FreesOnIo(c, t) ==
    LET c1 == [c EXCEPT !.ws = "null", !.ioc = "null", !.pending = {},
                        !.ioThread = IF t = "io" THEN @ ELSE "null",
                        !.pc["io"] = IF t # "io" /\ c.ioThread = "set" THEN "none" ELSE @]
        c2 == LaunchReconnect([c1 EXCEPT !.posted = @ + 1, !.tornDown = TRUE])
        c3 == [c2 EXCEPT !.mtx = "free",
                         !.cstep = CStep("cleanup", t, "", "", "", 0)]
    IN ReturnTo(c3, t, c.ccRet[t])

\* cleanupConnection, last part: join and free unless running on the I/O
\* thread, post the "disconnected" callback, launch the reconnect loop,
\* release the mutex and return.  (Enabled for a joining context only once
\* the I/O thread has ended.)
cleanupConnection_finish(c, t) ==
    LET inIoThread == c.ioThread = "set" /\ t = "io"
        c1 == IF inIoThread THEN c
              ELSE [c EXCEPT !.ioThread = "null",
                             !.pc["io"] = IF c.ioThread = "set" THEN "none" ELSE @,
                             !.ws = "null", !.ioc = "null", !.pending = {}]
        c2 == LaunchReconnect([c1 EXCEPT !.posted = @ + 1, !.tornDown = TRUE])
        c3 == [c2 EXCEPT !.mtx = "free",
                         !.cstep = CStep("cleanup", t, "", "", "", 0)]
    IN ReturnTo(c3, t, c.ccRet[t])

\* connectToServer, entry: true at once when running, else the cleanup of
\* the previous connection.
connectToServer_enter(c, t) ==
    IF c.running THEN ReturnTrue(c, t)
    ELSE [c EXCEPT !.pc[t] = "k_lock", !.ccRet[t] = "c_start",
                   !.connects = @ + 1,
                   !.cstep = CStep("connect_enter", t, "", "", "", 0)]

\* connectToServer after the cleanup: set running, replace the io_context,
\* resolve and connect (`reachable`: the TCP connect succeeds; otherwise the
\* exception handler clears running and returns false), create the stream and
\* the I/O thread, start the handshake.  When another caller's I/O thread
\* exists, replacing the io_context it runs frees it under that thread, and
\* replacing the joinable std::thread calls std::terminate.
connectToServer_start(c, t, reachable) ==
    IF c.ioThread = "set" /\ (c.pc["io"] # "done" \/ reachable)
    THEN [c EXCEPT !.crashed = TRUE,
                   !.cstep = CStep("terminate", t, "", "", "", 0)]
    ELSE IF ~reachable
    THEN [c EXCEPT !.running = FALSE, !.ioc = "live", !.pc[t] =
                      IF t = "recon" THEN "r_check" ELSE "idle",
                   !.attempt = IF t = "recon" THEN @ + 1 ELSE @,
                   !.cstep = CStep("connect", t, "false", "", "", 0)]
    ELSE [c EXCEPT !.running = TRUE, !.ioc = "live", !.ws = "fresh",
                   !.ioThread = "set", !.pc["io"] = "run",
                   !.pending = {"handshake"}, !.hsOwner = t,
                   !.hs[t] = "none", !.pc[t] = "c_wait",
                   !.cstep = CStep("connect_start", t, "", "", "", 0)]

\* doAsyncRead: arm a read unless not running or without a stream.
doAsyncRead(c) ==
    IF ~c.running \/ c.ws = "null" THEN [c EXCEPT !.pending = @ \ {"read"}]
    ELSE [c EXCEPT !.pending = @ \cup {"read"}]

\* Mutation: a handshake that did not succeed is retried from within the call.
connectToServer_wait_Retry(c, t, timeout) ==
    IF c.hs[t] = "ok"
    THEN ReturnTrue(doAsyncRead([c EXCEPT !.hs[t] = "none"]), t)
    ELSE [c EXCEPT !.pc[t] = "k_lock", !.ccRet[t] = "c_start",
                   !.cstep = CStep(IF timeout THEN "handshake_timeout"
                                   ELSE "handshake_failed", t, "", "", "", 0)]

\* connectToServer, the wait on the handshake future: `timeout` is the 5 s
\* wait running out before the handler has run.
connectToServer_wait(c, t, timeout) ==
    IF c.hs[t] = "ok"
    THEN ReturnTrue(doAsyncRead([c EXCEPT !.hs[t] = "none"]), t)
    ELSE [c EXCEPT !.pc[t] = "k_lock", !.ccRet[t] = "c_fail",
                   !.cstep = CStep(IF timeout THEN "handshake_timeout"
                                   ELSE "handshake_failed", t, "", "", "", 0)]

\* WebSocketImageClient::sendControlMessage / sendFrame, the test at entry.
Connected(c) == c.running /\ c.ws = "open"

\* The two send functions of the client.
SendOps == {"sendFrame", "sendControlMessage"}

\* Mutation: the write is issued although the test at entry failed.
sendRefused_WritesAnyway(c, t, op) ==
    [c EXCEPT !.running = FALSE, !.pending = @ \cup {"write"},
              !.cstep = CStep(op, t, "false", "", "", 0)]

\* The send functions when the test at entry fails.
sendRefused(c, t, op) ==
    [c EXCEPT !.running = FALSE, !.cstep = CStep(op, t, "false", "", "", 0)]

\* The send functions after the test at entry: async_write on the stream.
\* A null stream pointer is dereferenced when a teardown freed it meanwhile.
sendWrite(c, t, op, alias) ==
    IF c.ws = "null"
    THEN [c EXCEPT !.crashed = TRUE, !.cstep = CStep("segfault", t, "", "", "", 0)]
    ELSE [c EXCEPT !.pending = @ \cup {"write"},
                   !.pc[t] = IF t = "main" THEN "idle" ELSE @,
                   !.cstep = CStep(op, t, "true", "", alias, 0)]

\* Mutation: the read handler does not re-arm the read.
onRead_NoRearm(c, frame, fps) ==
    LET c0 == [c EXCEPT !.cstep = CStep("read", "io", "", frame, "", 0)] IN
    IF frame = "REQUEST_ALIAS"
    THEN IF Connected(c0)
         THEN [sendWrite(c0, "io", "read", c0.m_alias) EXCEPT
                  !.cstep = CStep("read", "io", "true", frame, c0.m_alias, 0),
                  !.pending = (@ \ {"read"}) \cup {"write"}]
         ELSE [sendRefused(c0, "io", "read") EXCEPT
                  !.cstep = CStep("read", "io", "false", frame, "", 0),
                  !.pending = @ \ {"read"}]
    ELSE IF frame = "SET_FPS"
    THEN [c0 EXCEPT !.configuredFps = fps, !.pending = @ \ {"read"},
                    !.cstep = CStep("read", "io", "callback", frame, "", fps)]
    ELSE [c0 EXCEPT !.pending = @ \ {"read"}]

\* The completion handler of async_read for a frame that arrived: dispatch
\* on the prefix and the message type, then doAsyncRead.
onRead(c, frame, fps) ==
    LET c0 == [c EXCEPT !.cstep = CStep("read", "io", "", frame, "", 0)] IN
    IF frame = "REQUEST_ALIAS"
    THEN IF Connected(c0)
         THEN doAsyncRead(
                 [sendWrite(c0, "io", "read", c0.m_alias) EXCEPT
                     !.cstep = CStep("read", "io", "true", frame, c0.m_alias, 0)])
         ELSE doAsyncRead(
                 [sendRefused(c0, "io", "read") EXCEPT
                     !.cstep = CStep("read", "io", "false", frame, "", 0)])
    ELSE IF frame = "SET_FPS"
    THEN doAsyncRead([c0 EXCEPT !.configuredFps = fps,
                                !.cstep = CStep("read", "io", "callback", frame, "", fps)])
    ELSE doAsyncRead(c0)

\* A completion handler that got an error code calls cleanupConnection.
onError(c, op, what) ==
    [c EXCEPT !.pending = @ \ {what}, !.pc["io"] = "k_lock", !.ccRet["io"] = "run",
              !.cstep = CStep(op, "io", "", "", "", 0)]

\* ------------------------------------------------------------ state
VARIABLES
    m_clients,                  \* ClientModel::m_clients, in admission order
    m_sessions,                 \* WebSocketServer::m_sessions (session ids)
    m_activeClientId,           \* the Active-Client Reference
    m_lastFrame,                \* last frame handed to the image provider
    m_frameId,                  \* frame counter
    m_currentFps,               \* rate last applied to a client
    m_configuredFps,            \* server-wide configured rate
    m_settings,                 \* QSettings("ImageSocket", "Server") key "fps"
    m_connectionState,
    m_serverState,              \* ImageServerBridge::m_serverState
    m_listener,                 \* WebSocketServer::m_server: "null", "listening"
    m_statusMessage,
    m_activeClientMeasuredFps,
    nextId,                     \* next identifier QUuid::createUuid() yields
    now,                        \* QDateTime::currentMSecsSinceEpoch()
    call,                       \* the slot that ran last, with its arguments
    emitted,                    \* signals emitted by that slot, in order
    sent,                       \* control frames written by that slot, in order
    received                    \* the binary message that slot was handed

\* One WebSocketImageClient object (a producer process).
VARIABLES
    running,                    \* Impl::running
    reconnecting,               \* Impl::reconnecting
    ws,                         \* Impl::ws: "null", "fresh", "open", "closed"
    ioc,                        \* Impl::ioc: "null", "live", "stopped"
    ioThread,                   \* Impl::ioThread: "null", "set"
    mtx,                        \* Impl::mtx: "free" or the context holding it
    configuredFps,              \* Impl::configuredFps
    m_alias,
    pc,                         \* where each context stands
    ccRet,                      \* where its cleanupConnection call returns to
    pending,                    \* asynchronous operations on the io_context
    hs,                         \* each caller's handshake future
    hsOwner,                    \* the caller whose promise the handler holds
    helpers,                    \* detached helpers still in their sleep
    attempt,                    \* the reconnect loop's attempt counter
    loops,                      \* reconnect loop threads alive
    connects,                   \* connectToServer calls past the entry test
    disconnects,                \* disconnectFromServer calls
    posted,                     \* m_onDisconnected invocations posted since
                                \* the last handshake succeeded
    established,                \* a handshake has succeeded
    tornDown,                   \* a cleanupConnection call has completed
    crashed,                    \* the process was terminated
    cstep                       \* the step that ran last

svars == <<m_clients, m_sessions, m_activeClientId, m_lastFrame, m_frameId,
           m_currentFps, m_configuredFps, m_settings, m_connectionState,
           m_serverState, m_listener, m_statusMessage, m_activeClientMeasuredFps, nextId, now, call,
           emitted, sent, received>>

cvars == <<running, reconnecting, ws, ioc, ioThread, mtx, configuredFps,
           m_alias, pc, ccRet, pending, hs, hsOwner, helpers, attempt,
           loops, connects, disconnects, posted, established, tornDown, crashed,
           cstep>>

vars == <<svars, cvars>>

Call(op, id, fps, str) == [op |-> op, id |-> id, fps |-> fps, str |-> str]

\* The fields a slot works on, with empty logs for the slot about to run.
Bridge ==
    [clients |-> m_clients, sessions |-> m_sessions, active |-> m_activeClientId,
     lastFrame |-> m_lastFrame, frameId |-> m_frameId, currentFps |-> m_currentFps,
     configuredFps |-> m_configuredFps, settings |-> m_settings,
     connState |-> m_connectionState, statusMsg |-> m_statusMessage,
     serverState |-> m_serverState, listener |-> m_listener,
     activeMeasured |-> m_activeClientMeasuredFps,
     emitted |-> <<>>, sent |-> <<>>, received |-> NoRaw]

\* The state a slot leaves behind.
Leaves(b) ==
    /\ m_clients' = b.clients
    /\ m_sessions' = b.sessions
    /\ m_activeClientId' = b.active
    /\ m_lastFrame' = b.lastFrame
    /\ m_frameId' = b.frameId
    /\ m_currentFps' = b.currentFps
    /\ m_configuredFps' = b.configuredFps
    /\ m_settings' = b.settings
    /\ m_connectionState' = b.connState
    /\ m_statusMessage' = b.statusMsg
    /\ m_serverState' = b.serverState
    /\ m_listener' = b.listener
    /\ m_activeClientMeasuredFps' = b.activeMeasured
    /\ emitted' = b.emitted
    /\ sent' = b.sent
    /\ received' = b.received
    /\ UNCHANGED cvars

\* ImageServerBridge::ImageServerBridge with `stored` under the "fps" key.
Constructed(stored) ==
    [clients |-> <<>>, sessions |-> <<>>, active |-> EmptyId,
     lastFrame |-> "", frameId |-> 0, currentFps |-> 0,
     configuredFps |-> stored, settings |-> stored,
     connState |-> "NoClients", statusMsg |-> "",
     serverState |-> "Idle", listener |-> "null",
     activeMeasured |-> 0,
     emitted |-> <<Sig("configuredFpsChanged", EmptyId, stored, "")>>,
     sent |-> <<>>, received |-> NoRaw]

SessionIds == {m_sessions[i] : i \in 1..Len(m_sessions)}

\* WebSocketImageClient::WebSocketImageClient and Impl's initialisers.
ClientInit ==
    /\ running = FALSE
    /\ reconnecting = FALSE
    /\ ws = "null"
    /\ ioc = "null"
    /\ ioThread = "null"
    /\ mtx = "free"
    /\ configuredFps = 0
    /\ m_alias = ""
    /\ pc = [t \in Threads |-> IF t = "main" THEN "idle" ELSE "none"]
    /\ ccRet = [t \in Threads |-> "none"]
    /\ pending = {}
    /\ hs = [t \in Callers |-> "none"]
    /\ hsOwner = "main"
    /\ helpers = 0
    /\ attempt = 0
    /\ loops = 0
    /\ connects = 0
    /\ disconnects = 0
    /\ posted = 0
    /\ established = FALSE
    /\ tornDown = FALSE
    /\ crashed = FALSE
    /\ cstep = CStep("construct", "main", "", "", "", 0)

\* The instance constructed over `stored` and started: the server the
\* connections of every specification but the lifecycle's arrive at.
Started(stored) == start(Constructed(stored), TRUE)

InitFrom(b) ==
    /\ m_clients = b.clients
    /\ m_sessions = b.sessions
    /\ m_activeClientId = b.active
    /\ m_lastFrame = b.lastFrame
    /\ m_frameId = b.frameId
    /\ m_currentFps = b.currentFps
    /\ m_configuredFps = b.configuredFps
    /\ m_settings = b.settings
    /\ m_connectionState = b.connState
    /\ m_serverState = b.serverState
    /\ m_listener = b.listener
    /\ m_statusMessage = b.statusMsg
    /\ m_activeClientMeasuredFps = b.activeMeasured
    /\ emitted = b.emitted
    /\ sent = b.sent
    /\ received = b.received
    /\ nextId = 1
    /\ now = StartMs
    /\ call = Call("construct", EmptyId, 0, "")
    /\ ClientInit

Init == \E stored \in StoredFpsValues : InitFrom(Started(stored))

\* ---------------------------------------------------------- actions
\* admit: a transport connects (WebSocketServer::onNewConnection); at most
\* `limit` identifiers are handed out.
AdmitUpTo(limit) ==
    /\ m_listener = "listening"
    /\ nextId <= limit
    /\ \E ok \in BOOLEAN : Leaves(onNewConnection(Bridge, nextId, ok))
    /\ nextId' = nextId + 1
    /\ call' = Call("admit", nextId, 0, "")
    /\ UNCHANGED now

Admit == AdmitUpTo(MaxIds)

AdmitStreaming == AdmitUpTo(MaxDataIds)

\* remove: the transport of session `id` reports closure.
Remove ==
    \E id \in SessionIds, ok \in BOOLEAN :
       /\ Leaves(serverSessionDisconnected(Bridge, id, ok))
       /\ call' = Call("remove", id, 0, "")
       /\ UNCHANGED <<nextId, now>>

\* set_active with any identifier: a live one, the empty one, or one that is
\* not in the registry (a removed session's identifier is never handed out
\* again, so it behaves as BogusId does).
SetActive ==
    \E id \in SessionIds \cup {EmptyId, BogusId}, ok \in BOOLEAN :
       /\ Leaves(setActiveClient(Bridge, id, ok))
       /\ call' = Call("set_active", id, 0, "")
       /\ UNCHANGED <<nextId, now>>

\* set_frame_rate(fps).
SetFps ==
    \E fps \in FpsValues, ok \in BOOLEAN :
       /\ Leaves(setFps(Bridge, fps, ok))
       /\ call' = Call("set_frame_rate", EmptyId, fps, "")
       /\ UNCHANGED <<nextId, now>>

\* The configuredFps property is written.
SetConfiguredFps ==
    \E fps \in FpsValues, ok \in BOOLEAN :
       /\ Leaves(setConfiguredFps(Bridge, fps, ok))
       /\ call' = Call("set_configured_fps", EmptyId, fps, "")
       /\ UNCHANGED <<nextId, now>>

\* handle_control: a control frame of session `id` reaches the bridge.
HandleControl ==
    \E id \in SessionIds, type \in PeerMsgTypes, alias \in AliasValues :
       /\ type # "ALIAS" => alias = ""
       /\ Leaves(onControlMessageReceived(Bridge, id,
                    [type |-> type, alias |-> alias, fps |-> 0]))
       /\ call' = Call("handle_control", id, 0, type \o ":" \o alias)
       /\ UNCHANGED <<nextId, now>>

\* handle_data: a decoded frame of session `id` reaches the bridge, `dt` ms
\* after the previous one.
HandleData ==
    \E id \in SessionIds, frame \in FrameValues, dt \in ClockSteps :
       /\ now + dt <= MaxNow
       /\ now' = now + dt
       /\ Leaves(onFrameReceived(Bridge, id, frame, now + dt))
       /\ call' = Call("handle_data", id, 0, frame)
       /\ UNCHANGED nextId

\* handle_data for streams of frames: the frame of session `id` is handled
\* `gap` ms after the previous reading of the wall clock.  Frames that
\* follow closely are those of one session (the one admitted or heard
\* last); after a pause any session may send.
HandleDataSpaced ==
    \E id \in SessionIds, gap \in FrameGaps :
       /\ gap < 1000 => call.op \in {"admit", "handle_data"} /\ call.id = id
       /\ now + gap <= MaxWindowNow
       /\ now' = now + gap
       /\ Leaves(onFrameReceived(Bridge, id, "img1", now + gap))
       /\ call' = Call("handle_data", id, 0, "img1")
       /\ UNCHANGED nextId

\* A binary message arrives on the connection of session `id`
\* (QWebSocket::binaryMessageReceived).  The wall clock is read only when a
\* decoded frame reaches the bridge, `dt` ms after the previous reading.
Receive ==
    \E id \in SessionIds, raw \in RawMessages, dt \in ClockSteps :
       LET t == IF raw.first \notin {NoByte, ControlPrefix} /\ loadFromData(raw) # ""
                THEN now + dt ELSE now
       IN /\ t <= MaxNow
          /\ now' = t
          /\ Leaves(onBinaryMessageReceived(Bridge, id, raw, t))
          /\ call' = Call("receive", id, 0, raw.kind)
          /\ UNCHANGED nextId

\* The process ends; a new instance is constructed over the same store and
\* started.
Restart ==
    /\ Leaves(Started(m_settings))
    /\ call' = Call("construct", EmptyId, 0, "")
    /\ UNCHANGED <<nextId, now>>

\* Arbitration and frame-rate control: connections come and go, the operator
\* selects clients and rates, the process restarts.
Next ==
    \/ Admit
    \/ Remove
    \/ SetActive
    \/ SetFps
    \/ SetConfiguredFps
    \/ Restart

Spec == Init /\ [][Next]_vars

\* Arbitration under data traffic: frames arrive from the connected sessions
\* while connections come and go and the operator selects clients.
NextData ==
    \/ AdmitStreaming
    \/ Remove
    \/ SetActive
    \/ HandleData

SpecData == Init /\ [][NextData]_vars

\* Arbitration under control traffic: control frames arrive from the
\* connected sessions while connections come and go and the operator selects
\* clients.
NextControl ==
    \/ AdmitStreaming
    \/ Remove
    \/ SetActive
    \/ HandleControl

SpecControl == Init /\ [][NextControl]_vars

\* The connections as the sessions see them: binary messages of every shape
\* arrive while connections come and go.
NextWire ==
    \/ AdmitStreaming
    \/ Remove
    \/ Receive

SpecWire == Init /\ [][NextWire]_vars

\* Streams of data frames from the admitted sessions, with no stored rate.
InitWindow == Init /\ m_settings = 0

NextWindow ==
    \/ AdmitStreaming
    \/ HandleDataSpaced

SpecWindow == InitWindow /\ [][NextWindow]_vars

\* One side serializes a control message and writes it as a control frame;
\* the other side decodes the bytes of the binary message it is handed.
SendAndDecode ==
    /\ \E m \in CodecMessages :
          call' = [op |-> "roundtrip", id |-> EmptyId, fps |-> 0, str |-> "",
                   msg |-> m, payload |-> <<>>, frame |-> ControlFrame(m),
                   decoded |-> DecodeFrame(ControlFrame(m))]
    /\ UNCHANGED <<m_clients, m_sessions, m_activeClientId, m_lastFrame,
                   m_frameId, m_currentFps, m_configuredFps, m_settings,
                   m_connectionState, m_serverState, m_listener,
                   m_statusMessage, m_activeClientMeasuredFps, nextId, now,
                   emitted, sent, received, cvars>>

\* One side writes a payload as a data frame; the other side decodes the
\* bytes of the binary message it is handed.
SendDataAndDecode ==
    /\ \E p \in Payloads :
          call' = [op |-> "data_roundtrip", id |-> EmptyId, fps |-> 0, str |-> "",
                   msg |-> DefaultMessage, payload |-> p, frame |-> DataFrame(p),
                   decoded |-> DecodeFrame(DataFrame(p))]
    /\ UNCHANGED <<m_clients, m_sessions, m_activeClientId, m_lastFrame,
                   m_frameId, m_currentFps, m_configuredFps, m_settings,
                   m_connectionState, m_serverState, m_listener,
                   m_statusMessage, m_activeClientMeasuredFps, nextId, now,
                   emitted, sent, received, cvars>>

NextCodec ==
    \/ SendAndDecode
    \/ SendDataAndDecode

SpecCodec == InitWindow /\ [][NextCodec]_vars

\* Connections coming and going with no operator input and no traffic.
NextAdmitRemove ==
    \/ Admit
    \/ Remove

SpecAdmitRemove == Init /\ [][NextAdmitRemove]_vars

\* start(): the operator starts the server; `bound` is whether the port
\* can be bound.
Start ==
    \E bound \in BOOLEAN :
       /\ Leaves(start(Bridge, bound))
       /\ call' = Call("start", EmptyId, 0, "")
       /\ UNCHANGED <<nextId, now>>

\* stop(): the operator stops the server.
Stop ==
    /\ Leaves(stop(Bridge))
    /\ call' = Call("stop", EmptyId, 0, "")
    /\ UNCHANGED <<nextId, now>>

\* The server's life cycle: a bridge freshly constructed, which the operator
\* starts and stops while connections come and go and clients and rates
\* are selected.
InitLifecycle == \E stored \in StoredFpsValues : InitFrom(Constructed(stored))

NextLifecycle ==
    \/ Start
    \/ Stop
    \/ AdmitStreaming
    \/ Remove
    \/ SetActive
    \/ SetFps

SpecLifecycle == InitLifecycle /\ [][NextLifecycle]_vars

\* ------------------------------------------------- client actions
\* The fields a client step works on.
Client ==
    [running |-> running, reconnecting |-> reconnecting, ws |-> ws, ioc |-> ioc,
     ioThread |-> ioThread, mtx |-> mtx, configuredFps |-> configuredFps,
     m_alias |-> m_alias, pc |-> pc, ccRet |-> ccRet, pending |-> pending,
     hs |-> hs, hsOwner |-> hsOwner, helpers |-> helpers, attempt |-> attempt,
     loops |-> loops,
     connects |-> connects, disconnects |-> disconnects, posted |-> posted,
     established |-> established, tornDown |-> tornDown, crashed |-> crashed,
     cstep |-> cstep]

\* The state a client step leaves behind; the server is a different process.
ClientLeaves(c) ==
    /\ running' = c.running
    /\ reconnecting' = c.reconnecting
    /\ ws' = c.ws
    /\ ioc' = c.ioc
    /\ ioThread' = c.ioThread
    /\ mtx' = c.mtx
    /\ configuredFps' = c.configuredFps
    /\ m_alias' = c.m_alias
    /\ pc' = c.pc
    /\ ccRet' = c.ccRet
    /\ pending' = c.pending
    /\ hs' = c.hs
    /\ hsOwner' = c.hsOwner
    /\ helpers' = c.helpers
    /\ attempt' = c.attempt
    /\ loops' = c.loops
    /\ connects' = c.connects
    /\ disconnects' = c.disconnects
    /\ posted' = c.posted
    /\ established' = c.established
    /\ tornDown' = c.tornDown
    /\ crashed' = c.crashed
    /\ cstep' = c.cstep
    /\ UNCHANGED svars

\* setAlias, before the first connect.
SetAlias ==
    /\ ~crashed /\ pc["main"] = "idle" /\ connects = 0 /\ m_alias = ""
    /\ \E alias \in AliasValues \ {""} :
          ClientLeaves([Client EXCEPT !.m_alias = alias,
                                      !.cstep = CStep("setAlias", "main", "", "", alias, 0)])

\* The application calls connectToServer; at most `limit` calls get past
\* the entry test.
UserConnectUpTo(limit) ==
    /\ ~crashed /\ pc["main"] = "idle" /\ connects < limit
    /\ ClientLeaves(connectToServer_enter(Client, "main"))

UserConnect == UserConnectUpTo(MaxConnects)

UserConnectOnce == UserConnectUpTo(MaxIoConnects)

\* The application calls disconnectFromServer.
UserDisconnect ==
    /\ ~crashed /\ pc["main"] = "idle" /\ disconnects < MaxDisconnects
    /\ ClientLeaves([Client EXCEPT !.pc["main"] = "k_lock", !.ccRet["main"] = "idle",
                                   !.disconnects = @ + 1,
                                   !.cstep = CStep("disconnect", "main", "", "", "", 0)])

\* The application calls sendFrame or sendControlMessage: the test at entry.
UserSend ==
    /\ ~crashed /\ pc["main"] = "idle"
    /\ \E op \in SendOps :
          IF Connected(Client)
          THEN ClientLeaves([Client EXCEPT !.pc["main"] = op,
                                           !.cstep = CStep(op, "main", "", "", "", 0)])
          ELSE ClientLeaves(sendRefused(Client, "main", op))

\* ... and the asynchronous write it issues.
UserSendWrite ==
    /\ ~crashed /\ pc["main"] \in SendOps
    /\ ClientLeaves(sendWrite(Client, "main", pc["main"], ""))

\* cleanupConnection in context t, up to the close of the websocket.
CleanupLock ==
    \E t \in Threads :
       /\ ~crashed /\ pc[t] = "k_lock" /\ mtx = "free"
       /\ ClientLeaves(cleanupConnection_lock(Client, t))

CleanupStop ==
    \E t \in Threads :
       /\ ~crashed /\ pc[t] = "k_stop"
       /\ ClientLeaves(cleanupConnection_stop(Client, t))

\* std::thread::join returns once the I/O thread has ended.
CleanupFinish ==
    \E t \in Threads :
       /\ ~crashed /\ pc[t] = "k_join"
       /\ (t # "io" /\ ioThread = "set") => pc["io"] = "done"
       /\ ClientLeaves(cleanupConnection_finish(Client, t))

ConnectStart ==
    \E t \in Callers, reachable \in BOOLEAN :
       /\ ~crashed /\ pc[t] = "c_start"
       /\ ClientLeaves(connectToServer_start(Client, t, reachable))

\* The handshake future becomes ready, or the wait times out.
ConnectWait ==
    \E t \in Callers :
       /\ ~crashed /\ pc[t] = "c_wait"
       /\ ClientLeaves(connectToServer_wait(Client, t, hs[t] = "none"))

\* The I/O thread runs the completion handler of the handshake.
HandshakeDone ==
    /\ ~crashed /\ pc["io"] = "run" /\ ioc = "live" /\ "handshake" \in pending
    /\ \E ok \in BOOLEAN :
          ClientLeaves([Client EXCEPT
             !.pending = @ \ {"handshake"},
             !.ws = IF ok /\ @ = "fresh" THEN "open" ELSE @,
             !.hs[hsOwner] = IF ok THEN "ok" ELSE "failed",
             !.posted = IF ok THEN 0 ELSE @,
             !.established = IF ok THEN TRUE ELSE @,
             !.cstep = CStep("handshake", "io", IF ok THEN "true" ELSE "false", "", "", 0)])

\* The I/O thread runs the completion handler of a read: a frame arrived.
ReadFrame ==
    /\ ~crashed /\ pc["io"] = "run" /\ ioc = "live" /\ "read" \in pending
    /\ ws = "open"
    /\ \E frame \in ServerFrames, fps \in FpsValues :
          /\ frame # "SET_FPS" => fps = 24
          /\ ClientLeaves(onRead(Client, frame, fps))

\* ... or the read failed (the peer went away, or the stream was closed).
ReadError ==
    /\ ~crashed /\ pc["io"] = "run" /\ ioc = "live" /\ "read" \in pending
    /\ ClientLeaves(onError(Client, "read_error", "read"))

\* The I/O thread runs the completion handler of a write.
WriteDone ==
    /\ ~crashed /\ pc["io"] = "run" /\ ioc = "live" /\ "write" \in pending
    /\ ws = "open"
    /\ ClientLeaves([Client EXCEPT !.pending = @ \ {"write"},
                                   !.cstep = CStep("write_done", "io", "", "", "", 0)])

WriteError ==
    /\ ~crashed /\ pc["io"] = "run" /\ ioc = "live" /\ "write" \in pending
    /\ ClientLeaves(onError(Client, "write_error", "write"))

\* io_context::run returns on the I/O thread, which spawns the helper that
\* will call cleanupConnection, and ends.
IoExit ==
    /\ ~crashed /\ pc["io"] = "run" /\ ioc = "stopped"
    /\ ClientLeaves([Client EXCEPT !.pc["io"] = "done", !.helpers = @ + 1,
                                   !.cstep = CStep("io_exit", "io", "", "", "", 0)])

\* A helper's 10 ms sleep ends and it calls cleanupConnection.
HelperRun ==
    /\ ~crashed /\ helpers > 0 /\ pc["helper"] = "none"
    /\ ClientLeaves([Client EXCEPT !.helpers = @ - 1, !.pc["helper"] = "k_lock",
                                   !.ccRet["helper"] = "none",
                                   !.cstep = CStep("helper", "helper", "", "", "", 0)])

\* The reconnect loop tests running.
ReconnectCheck ==
    /\ ~crashed /\ pc["recon"] = "r_check"
    /\ ClientLeaves([Client EXCEPT
          !.pc["recon"] = IF running THEN "r_exit" ELSE "r_sleep",
          !.cstep = IF running
                    THEN CStep("reconnect_check", "recon", "", "", "", 0)
                    ELSE CStep("reconnect_sleep", "recon", "", "", "",
                               waitSeconds(attempt))])

\* The reconnect loop's sleep ends and it calls connectToServer.
ReconnectAttemptUpTo(limit) ==
    /\ ~crashed /\ pc["recon"] = "r_sleep" /\ connects < limit
    /\ ClientLeaves(connectToServer_enter(Client, "recon"))

ReconnectAttempt == ReconnectAttemptUpTo(MaxConnects)

ReconnectRetry == ReconnectAttemptUpTo(MaxRetries)

\* The reconnect loop clears reconnecting and its thread ends.
ReconnectExit ==
    /\ ~crashed /\ pc["recon"] = "r_exit"
    /\ ClientLeaves([Client EXCEPT !.reconnecting = FALSE, !.pc["recon"] = "none",
                                   !.loops = @ - 1,
                                   !.cstep = CStep("reconnect_exit", "recon", "", "", "", 0)])

\* A client process on its own: the server is constructed with no stored
\* rate and takes no step.
InitClient == Init /\ m_settings = 0

\* Connection life cycle of one client object: the application connects and
\* disconnects, handshakes and reads fail, the I/O thread, its helpers and
\* the reconnect loop run.
NextTeardown ==
    \/ UserConnect
    \/ UserDisconnect
    \/ CleanupLock
    \/ CleanupStop
    \/ CleanupFinish
    \/ ConnectStart
    \/ ConnectWait
    \/ HandshakeDone
    \/ ReadError
    \/ IoExit
    \/ HelperRun
    \/ ReconnectCheck
    \/ ReconnectAttempt
    \/ ReconnectExit

SpecTeardown == InitClient /\ [][NextTeardown]_vars

\* Connection attempts of one client object: the application and the
\* reconnect loop call connectToServer, handshakes succeed, fail or time out.
NextConnect ==
    \/ UserConnect
    \/ CleanupLock
    \/ CleanupStop
    \/ CleanupFinish
    \/ ConnectStart
    \/ ConnectWait
    \/ HandshakeDone
    \/ IoExit
    \/ HelperRun
    \/ ReconnectCheck
    \/ ReconnectAttempt
    \/ ReconnectExit

SpecConnect == InitClient /\ [][NextConnect]_vars

\* Sends of the application while the reconnect loop connects: the
\* application calls the send functions, the loop (launched by an explicit
\* disconnect) calls connectToServer.
NextSendWhileConnecting ==
    \/ UserDisconnect
    \/ UserSend
    \/ UserSendWrite
    \/ CleanupLock
    \/ CleanupStop
    \/ CleanupFinish
    \/ ConnectStart
    \/ ConnectWait
    \/ HandshakeDone
    \/ IoExit
    \/ HelperRun
    \/ ReconnectCheck
    \/ ReconnectAttempt
    \/ ReconnectExit

SpecSendWhileConnecting == InitClient /\ [][NextSendWhileConnecting]_vars

\* The reconnect loop on its own: an explicit disconnect launches it, its
\* connection attempts are refused, fail or time out in the handshake, or
\* succeed.
NextBackoff ==
    \/ UserDisconnect
    \/ CleanupLock
    \/ CleanupStop
    \/ CleanupFinish
    \/ ConnectStart
    \/ ConnectWait
    \/ HandshakeDone
    \/ IoExit
    \/ HelperRun
    \/ ReconnectCheck
    \/ ReconnectRetry
    \/ ReconnectExit

SpecBackoff == InitClient /\ [][NextBackoff]_vars

\* Traffic on the connections of a client object: the application sends, the
\* server's frames arrive, reads and writes fail; the reconnect loop, once
\* launched, stays in its sleep.
NextClientIo ==
    \/ SetAlias
    \/ UserConnectOnce
    \/ UserSend
    \/ UserSendWrite
    \/ CleanupLock
    \/ CleanupStop
    \/ CleanupFinish
    \/ ConnectStart
    \/ ConnectWait
    \/ HandshakeDone
    \/ ReadFrame
    \/ ReadError
    \/ WriteDone
    \/ WriteError
    \/ IoExit
    \/ HelperRun
    \/ ReconnectCheck
    \/ ReconnectExit

SpecClientIo == InitClient /\ [][NextClientIo]_vars

\* ------------------------------------------------- shared vocabulary
\* The registry as the claims speak of it: the rows of the client model.
Registered(id) == \E i \in 1..Len(m_clients) : m_clients[i].id = id

StatusOf(clients, id) == clients[indexOfClient(clients, id) + 1].status

ConfiguredOf(clients, id) == clients[indexOfClient(clients, id) + 1].configuredFps

ActiveRows == {i \in 1..Len(m_clients) : m_clients[i].status = "Active"}

Emitted(log, name) == \E i \in 1..Len(log) : log[i].sig = name

\* --------------------------------------------------------------- C1
\* C1: in every reachable state the Active-Client Reference is empty or names
\* a registered session whose status is Active; exactly one session is
\* Active when the reference is non-empty and none is when it is empty.
C1_ActiveReferenceInvariant ==
    /\ m_activeClientId # EmptyId =>
          /\ Registered(m_activeClientId)
          /\ StatusOf(m_clients, m_activeClientId) = "Active"
          /\ Cardinality(ActiveRows) = 1
    /\ m_activeClientId = EmptyId => ActiveRows = {}

\* --------------------------------------------------------------- C2
\* C2: when only admit and remove happen, starting from an empty registry, the
\* Active-Client Reference is non-empty exactly when the registry is
\* non-empty, and then it names a registered session whose status is Active.
C2_AdmitRemoveKeepsOneActive ==
    /\ (m_activeClientId # EmptyId) <=> (Len(m_clients) > 0)
    /\ (m_activeClientId # EmptyId) <=> (Len(m_sessions) > 0)
    /\ m_activeClientId # EmptyId =>
          /\ Registered(m_activeClientId)
          /\ StatusOf(m_clients, m_activeClientId) = "Active"

\* A removal has left a non-empty registry behind, after a promotion.
C2_Witness ==
    /\ call.op = "remove"
    /\ Len(m_clients) >= 1
    /\ Emitted(emitted, "ClientBecameActive")
    /\ m_activeClientId # EmptyId

\* --------------------------------------------------------------- C3
\* C3: when remove is applied to the Active session while another session is
\* registered, the reference afterwards names a different session, the first
\* remaining one in admission order, and that session's status is Active.
C3_Step ==
    \A id \in SessionIds :
       ( /\ call'.op = "remove" /\ call'.id = id
         /\ m_activeClientId = id
         /\ Len(m_clients) > 1 )
       => LET rest == SelectSeq(m_clients, LAMBDA e : e.id # id) IN
          /\ m_activeClientId' = rest[1].id
          /\ m_activeClientId' # id
          /\ m_clients'[1].id = rest[1].id
          /\ m_clients'[1].status = "Active"

C3_RemoveActivePromotesFirst == [][C3_Step]_vars

\* The Active session was removed with two others left, and the first of
\* them, not the last, is now Active.
C3_Witness ==
    /\ call.op = "remove"
    /\ Len(m_clients) = 2
    /\ \E i \in 1..Len(emitted) :
          /\ emitted[i].sig = "ClientBecameActive"
          /\ emitted[i].n = call.id
          /\ emitted[i].id = m_clients[1].id
    /\ m_activeClientId = m_clients[1].id
    /\ m_clients[2].status = "Connected"

\* --------------------------------------------------------------- C4
\* C4: a data frame handled for a session is forwarded, and the frame counter
\* grows by exactly one, if and only if that session is the one the
\* Active-Client Reference names when the frame is handled; any other frame
\* leaves the counter and the forwarded frame alone; the counter never
\* decreases.
C4_Step ==
    /\ m_frameId' >= m_frameId
    /\ call'.op # "handle_data" => m_frameId' = m_frameId /\ m_lastFrame' = m_lastFrame
    /\ call'.op = "handle_data" =>
          IF call'.id = m_activeClientId
          THEN /\ m_frameId' = m_frameId + 1
               /\ m_lastFrame' = call'.str
               /\ Cardinality({i \in 1..Len(emitted') :
                                  emitted'[i].sig = "newFrameReady"}) = 1
               /\ \E i \in 1..Len(emitted') :
                     emitted'[i] = Sig("newFrameReady", call'.id, 0, call'.str)
          ELSE /\ m_frameId' = m_frameId
               /\ m_lastFrame' = m_lastFrame
               /\ ~Emitted(emitted', "newFrameReady")

C4_ForwardOnlyActiveFrames == [][C4_Step]_vars

\* A frame of a session that is not Active was handled after a frame of the
\* Active session had been forwarded, and it was not forwarded.
C4_Witness ==
    /\ call.op = "handle_data"
    /\ call.id # m_activeClientId
    /\ Registered(m_activeClientId)
    /\ m_frameId = 1
    /\ m_lastFrame # call.str
    /\ ~Emitted(emitted, "newFrameReady")

\* --------------------------------------------------------------- C5
\* C5: set_active with an identifier that is not in the registry is a no-op:
\* the Active-Client Reference, every session's status and the current frame
\* rate stay as they were and no control frame is sent.
C5_Step ==
    ( /\ call'.op = "set_active"
      /\ call'.id # EmptyId
      /\ ~Registered(call'.id) )
    => /\ m_activeClientId' = m_activeClientId
       /\ m_clients' = m_clients
       /\ m_currentFps' = m_currentFps
       /\ sent' = <<>>

C5_UnknownSetActiveIsNoOp == [][C5_Step]_vars

\* --------------------------------------------------------------- C6
\* C6: set_active for a registered session that is not Active demotes the
\* previously Active session to Connected, makes the target Active and
\* referenced, and sends the globally configured rate to the target as one
\* SET_FRAME_RATE frame; set_active for the session that is already Active
\* changes nothing.
C6_Step ==
    ( call'.op = "set_active" /\ Registered(call'.id) ) =>
       IF call'.id = m_activeClientId
       THEN /\ UNCHANGED <<m_clients, m_sessions, m_activeClientId, m_lastFrame,
                           m_frameId, m_currentFps, m_configuredFps, m_settings,
                           m_connectionState, m_serverState, m_listener,
                           m_statusMessage, m_activeClientMeasuredFps>>
            /\ emitted' = <<>>
            /\ sent' = <<>>
       ELSE /\ m_activeClientId' = call'.id
            /\ StatusOf(m_clients', call'.id) = "Active"
            /\ Registered(m_activeClientId) =>
                  StatusOf(m_clients', m_activeClientId) = "Connected"
            /\ Len(sent') = 1
            /\ sent'[1].to = call'.id
            /\ sent'[1].type = "SET_FPS"
            /\ sent'[1].fps = m_configuredFps

C6_SetActiveSwitches == [][C6_Step]_vars

\* The operator switched from one registered session to another while a
\* global rate was configured.
C6_Witness ==
    /\ call.op = "set_active"
    /\ m_activeClientId = call.id
    /\ m_configuredFps > 0
    /\ \E i \in 1..Len(emitted) :
          /\ emitted[i].sig = "ClientBecameActive"
          /\ emitted[i].id = call.id
          /\ Registered(emitted[i].n)
          /\ StatusOf(m_clients, emitted[i].n) = "Connected"
    /\ Len(sent) = 1 /\ sent[1].fps = m_configuredFps

\* --------------------------------------------------------------- C7
\* C7: set_frame_rate while the Active-Client Reference is empty yields the
\* "no active client" notification, sends no control frame, and leaves the
\* current rate and every session's configured rate as they were.
C7_Step ==
    ( call'.op = "set_frame_rate" /\ m_activeClientId = EmptyId ) =>
       /\ emitted' = <<Sig("FpsFailedNoClient", EmptyId, 0, "")>>
       /\ sent' = <<>>
       /\ m_currentFps' = m_currentFps
       /\ Len(m_clients') = Len(m_clients)
       /\ \A i \in 1..Len(m_clients) :
             m_clients'[i].configuredFps = m_clients[i].configuredFps

C7_NoActiveClientNoRate == [][C7_Step]_vars

\* A rate was requested while sessions were connected but none was Active,
\* and the request differed from the current rate.
C7_Witness ==
    /\ call.op = "set_frame_rate"
    /\ m_activeClientId = EmptyId
    /\ Len(m_clients) >= 1
    /\ Emitted(emitted, "FpsFailedNoClient")
    /\ m_currentFps # call.fps

\* --------------------------------------------------------------- C8
\* C8: when set_frame_rate(fps) succeeds (the reference is non-empty and the
\* write to the active session is accepted), the current rate and the active
\* session's configured rate equal fps, "rate applied" is notified, and no
\* other session's configured rate changes.
C8_Step ==
    ( /\ call'.op = "set_frame_rate"
      /\ m_activeClientId # EmptyId
      /\ Len(sent') = 1 /\ sent'[1].ok )
    => /\ m_currentFps' = call'.fps
       /\ Registered(m_activeClientId)
       /\ ConfiguredOf(m_clients', m_activeClientId) = call'.fps
       /\ Emitted(emitted', "FpsApplied")
       /\ Len(m_clients') = Len(m_clients)
       /\ \A i \in 1..Len(m_clients) :
             m_clients[i].id # m_activeClientId =>
                m_clients'[i].configuredFps = m_clients[i].configuredFps

C8_RateAppliedToActiveOnly == [][C8_Step]_vars

\* A rate was applied to the Active session while another session held a
\* different, non-zero configured rate.
C8_Witness ==
    /\ call.op = "set_frame_rate"
    /\ Emitted(emitted, "FpsApplied")
    /\ Len(sent) = 1 /\ sent[1].ok
    /\ m_currentFps = call.fps
    /\ \E i \in 1..Len(m_clients) :
          /\ m_clients[i].id # m_activeClientId
          /\ m_clients[i].configuredFps # 0
          /\ m_clients[i].configuredFps # call.fps

\* --------------------------------------------------------------- C9
\* C9: when the transport write of the SET_FRAME_RATE frame to the active
\* session fails, set_frame_rate notifies "send failed" and changes neither
\* the current rate nor the active session's configured rate.
C9_Step ==
    ( /\ call'.op = "set_frame_rate"
      /\ Registered(m_activeClientId)
      /\ \E i \in 1..Len(sent') : sent'[i].type = "SET_FPS" /\ ~sent'[i].ok )
    => /\ Emitted(emitted', "FpsSendError")
       /\ m_currentFps' = m_currentFps
       /\ ConfiguredOf(m_clients', m_activeClientId)
             = ConfiguredOf(m_clients, m_activeClientId)

C9_FailedWriteChangesNothing == [][C9_Step]_vars

\* -------------------------------------------------------------- C10
\* C10: after a successful set_frame_rate(fps) the rate persisted in the
\* configuration store, the one a restarted instance reads, equals fps.
C10_AppliedRateIsPersisted ==
    ( call.op = "set_frame_rate" /\ Emitted(emitted, "FpsApplied") )
    => m_settings = call.fps

\* -------------------------------------------------------------- C11
\* C11: when admit adds a session to a registry that holds no other session,
\* that session is Active and referenced when admit completes, and if a
\* global rate is configured a SET_FRAME_RATE frame carrying it is sent to
\* the session; this holds for every such admission.
C11_Step ==
    ( call'.op = "admit" /\ Len(m_clients) = 0 ) =>
       /\ \E i \in 1..Len(m_clients') : m_clients'[i].id = call'.id
       /\ m_activeClientId' = call'.id
       /\ StatusOf(m_clients', call'.id) = "Active"
       /\ m_configuredFps > 0 =>
             \E i \in 1..Len(sent') :
                /\ sent'[i].to = call'.id
                /\ sent'[i].type = "SET_FPS"
                /\ sent'[i].fps = m_configuredFps

C11_SoleAdmissionIsActive == [][C11_Step]_vars

\* -------------------------------------------------------------- C12
\* C12: admitting a further session and handling a control message (ALIAS
\* included) never move arbitration: while the reference names a registered
\* session, an admission leaves the reference and every status as they were
\* and the newcomer Connected; handling a control message leaves the
\* reference and every status as they were; and the reference leaves a
\* registered session only when that session is removed (or the operator
\* selects another one).
C12_Step ==
    /\ ( call'.op = "admit" /\ Registered(m_activeClientId) ) =>
          /\ m_activeClientId' = m_activeClientId
          /\ Len(m_clients') = Len(m_clients) + 1
          /\ \A i \in 1..Len(m_clients) :
                /\ m_clients'[i].id = m_clients[i].id
                /\ m_clients'[i].status = m_clients[i].status
          /\ m_clients'[Len(m_clients')].id = call'.id
          /\ m_clients'[Len(m_clients')].status = "Connected"
    /\ call'.op = "handle_control" =>
          /\ m_activeClientId' = m_activeClientId
          /\ Len(m_clients') = Len(m_clients)
          /\ \A i \in 1..Len(m_clients) :
                /\ m_clients'[i].id = m_clients[i].id
                /\ m_clients'[i].status = m_clients[i].status
    /\ ( Registered(m_activeClientId) /\ m_activeClientId' # m_activeClientId ) =>
          \/ call'.op = "remove" /\ call'.id = m_activeClientId
          \/ call'.op = "set_active"

C12_AdmitAndAliasKeepArbitration == [][C12_Step]_vars

\* A (first admitted) is Active, B was admitted after it, and B's ALIAS has
\* just been handled and stored: A is still the referenced, Active session.
C12_Witness ==
    /\ call.op = "handle_control"
    /\ call.str = "ALIAS:cam"
    /\ Len(m_clients) = 2
    /\ m_clients[1].status = "Active"
    /\ m_activeClientId = m_clients[1].id
    /\ call.id = m_clients[2].id
    /\ m_clients[2].alias = "cam"
    /\ m_clients[2].status = "Connected"

\* -------------------------------------------------------------- C13
\* The binary message the last receive handled.
ReceivedRaw == received

\* The alias the client model reports for a registered session.
AliasOf(clients, id) == aliasAt(clients, indexOfClient(clients, id))

ProgramVars ==
    <<m_clients, m_sessions, m_activeClientId, m_lastFrame, m_frameId,
      m_currentFps, m_configuredFps, m_settings, m_connectionState,
      m_statusMessage, m_activeClientMeasuredFps>>

\* The session handed the message on neither as a control message nor as a
\* frame.
Discarded(log) ==
    /\ ~Emitted(log, "controlMessageReceived")
    /\ ~Emitted(log, "frameReceived")

\* C19, as stated: a received frame is discarded only when it is a control
\* frame (first byte 0x01) whose remaining bytes do not parse as a Control
\* Message; every other frame is delivered, control frames to handle_control
\* and frames with any other first byte to handle_data; a discard changes no
\* state.
C19_StatedStep ==
    call'.op = "receive" =>
       LET raw == received' IN
       /\ Discarded(emitted') =>
             /\ raw.first = ControlPrefix
             /\ ParseFromArray(raw).type = "MALFORMED"
             /\ UNCHANGED ProgramVars
       /\ ~(raw.first = ControlPrefix /\ ParseFromArray(raw).type = "MALFORMED") =>
             IF raw.first = ControlPrefix
             THEN Emitted(emitted', "controlMessageReceived")
             ELSE Emitted(emitted', "frameReceived")

C19_OnlyMalformedControlDiscarded == [][C19_StatedStep]_vars

\* C19, amended: a received frame is discarded exactly when it is empty, or a
\* control frame (first byte 0x01) whose remaining bytes do not parse as a
\* Control Message, or a data frame whose image payload (the bytes after a
\* 0x00 prefix, else the whole frame) does not decode as a JPEG image; every
\* other frame is delivered, control frames to handle_control and data frames
\* to handle_data with the decoded image; a discard changes no state.
C19_AmendedStep ==
    call'.op = "receive" =>
       LET raw == received'
           undecodable ==
              \/ raw.first = NoByte
              \/ raw.first = ControlPrefix /\ raw.kind # "proto"
              \/ raw.first \notin {NoByte, ControlPrefix}
                    /\ ~(raw.kind = "jpeg" /\ raw.first \in {ImagePrefix, JpegFirstByte})
       IN
       /\ Discarded(emitted') <=> undecodable
       /\ Discarded(emitted') =>
             /\ UNCHANGED ProgramVars
             /\ emitted' = <<>>
             /\ sent' = <<>>
       /\ ~undecodable =>
             IF raw.first = ControlPrefix
             THEN /\ emitted'[1] = Sig("controlMessageReceived", call'.id, 0, raw.msg.type)
                  /\ ~Emitted(emitted', "frameReceived")
             ELSE /\ emitted'[1] = Sig("frameReceived", call'.id, 0, raw.img)
                  /\ ~Emitted(emitted', "controlMessageReceived")
                  /\ m_clients'[indexOfClient(m_clients', call'.id) + 1].lastFrameTsMs = now'

C19_UndecodableFramesDiscarded == [][C19_AmendedStep]_vars

\* A data frame that is no JPEG stream arrived from the Active session, after
\* one of its frames had been forwarded, and was discarded.
C19_Witness ==
    /\ call.op = "receive"
    /\ call.id = m_activeClientId
    /\ ReceivedRaw.first = ImagePrefix
    /\ ReceivedRaw.kind = "garbage"
    /\ Discarded(emitted)
    /\ m_frameId = 1

\* -------------------------------------------------------------- C20
\* C20: a control frame whose payload is malformed is dropped without further
\* effect: the session's connection stays open (it stays in the server's
\* session list), it stays in the registry with unchanged status and alias,
\* the Active-Client Reference and every other field are unchanged, nothing
\* is notified or sent; and in every state, those after such a drop
\* included, a valid ALIAS frame of a connected session is processed and a
\* new connection is admitted.
C20_Step ==
    /\ ( /\ call'.op = "receive"
         /\ received'.first = ControlPrefix
         /\ received'.kind # "proto" )
       => /\ UNCHANGED ProgramVars
          /\ call'.id \in {m_sessions'[i] : i \in 1..Len(m_sessions')}
          /\ emitted' = <<>>
          /\ sent' = <<>>
          /\ UNCHANGED <<nextId, now>>
    /\ ( /\ call'.op = "receive"
         /\ received'.first = ControlPrefix
         /\ received'.kind = "proto"
         /\ received'.msg.type = "ALIAS"
         /\ received'.msg.alias # "" )
       => /\ Emitted(emitted', "ClientConnected")
          /\ AliasOf(m_clients', call'.id) = received'.msg.alias
    /\ call'.op = "admit" =>
          /\ m_sessions' = Append(m_sessions, call'.id)
          /\ Len(m_clients') = Len(m_clients) + 1
          /\ \E i \in 1..Len(sent') :
                sent'[i].to = call'.id /\ sent'[i].type = "REQUEST_ALIAS"

C20_MalformedControlDropped == [][C20_Step]_vars

\* A malformed control frame arrived from the second of two sessions, whose
\* alias was already known, and was dropped.
C20_Witness ==
    /\ call.op = "receive"
    /\ ReceivedRaw.first = ControlPrefix
    /\ ReceivedRaw.kind = "garbage"
    /\ Len(m_clients) = 2
    /\ call.id = m_clients[2].id
    /\ m_clients[2].alias = "cam"
    /\ m_clients[1].status = "Active"
    /\ emitted = <<>>

\* -------------------------------------------------------------- C14
\* C14: for each connection that is torn down the "disconnected"
\* notification is issued exactly once, however many times and from whichever
\* contexts teardown is invoked for it: never more than one notification
\* since the connection was established, and one once its resources are
\* freed.
C14_DisconnectedExactlyOnce ==
    established =>
       /\ posted <= 1
       /\ (ws = "null" /\ \A t \in Threads : pc[t] \notin {"k_lock", "k_stop", "k_join"})
             => posted = 1

\* -------------------------------------------------------------- C15
\* Some context is inside cleanupConnection, or a teardown is still due: the
\* I/O thread has been told to stop and has not yet ended, or a helper is in
\* its sleep.
TeardownUnderWay ==
    \/ \E t \in Threads : pc[t] \in {"k_lock", "k_stop", "k_join"}
    \/ helpers > 0
    \/ pc["io"] = "run" /\ ioc = "stopped"

\* The reconnect loop is running and will call connectToServer again, or is
\* inside that call.
ReconnectWillRetry ==
    /\ reconnecting
    /\ pc["recon"] \in {"r_check", "r_sleep", "k_lock", "k_stop", "k_join",
                        "c_start", "c_wait"}

\* C15: every teardown leaves reconnection scheduled: in every state reached
\* after a teardown has completed, with no teardown under way and no call of
\* the application in progress, in which the connection is not Connected, a
\* reconnect loop is in progress and will call connect() again.
C15_TeardownLeavesReconnectScheduled ==
    ( /\ tornDown
      /\ ~crashed
      /\ ~TeardownUnderWay
      /\ pc["main"] = "idle"
      /\ ~Connected(Client) )
    => ReconnectWillRetry

\* The state the claim rules out, at rest: a teardown has completed, no
\* context is running, the client is not connected and no reconnect loop
\* exists.
Stranded ==
    /\ tornDown
    /\ ~crashed
    /\ ~running
    /\ ~reconnecting
    /\ helpers = 0
    /\ \A t \in Threads : pc[t] \in {"idle", "none"}

\* -------------------------------------------------------------- C16
\* The wait of caller t in connectToServer ends without a completed
\* handshake (timeout or failure).
C16_WaitFails(t) ==
    /\ pc[t] = "c_wait"
    /\ pc'[t] # "c_wait"
    /\ hs[t] # "ok"
    /\ ~crashed'

\* The teardown of such a call ends and the call returns to caller t.
C16_Returns(t) ==
    /\ pc[t] = "k_join"
    /\ ccRet[t] = "c_fail"
    /\ pc'[t] # "k_join"
    /\ ~crashed'

\* As stated, on the first call made on a client (no reconnect loop can
\* precede it): the call that ends in handshake timeout or failure returns
\* false, leaves the connection torn down, and no reconnect loop has been
\* started.
C16_StatedStep ==
    (C16_Returns("main") /\ connects = 1 /\ disconnects = 0)
    => /\ cstep'.op = "connect" /\ cstep'.ret = "false"
       /\ ~running'
       /\ ~reconnecting'
       /\ pc'["recon"] = "none"

C16_AmendedStep ==
    \A t \in Callers :
       /\ C16_WaitFails(t)
          => /\ pc'[t] = "k_lock"
             /\ ccRet'[t] = "c_fail"
             /\ connects' = connects
             /\ reconnecting' = reconnecting
             /\ \A u \in Threads \ {t} : pc'[u] = pc[u]
       /\ C16_Returns(t)
          => /\ cstep' = CStep("connect", t, "false", "", "", 0)
             /\ pc'[t] = IF t = "recon" THEN "r_check" ELSE "idle"
             /\ connects' = connects
             /\ ws' = "null" /\ ioc' = "null" /\ ioThread' = "null"
             /\ reconnecting'
             /\ pc'["recon"] # "none"

C17_Called ==
    /\ pc["main"] = "idle"
    /\ cstep'.t = "main"
    /\ cstep'.op \in SendOps
    /\ pc'["main"] \in SendOps \/ cstep'.ret = "false"

C17_Step ==
    /\ (C17_Called /\ ~Connected(Client))
       => /\ cstep'.ret = "false"
          /\ pc'["main"] = "idle"
          /\ pending' = pending
          /\ ws' = ws
    /\ (C17_Called /\ Connected(Client))
       => /\ pc'["main"] = cstep'.op
          /\ cstep'.ret = ""
    /\ (pc["main"] \in SendOps /\ pc'["main"] # pc["main"] /\ ~crashed')
       => /\ "write" \in pending'
          /\ cstep' = CStep(pc["main"], "main", "true", "", "", 0)
          /\ pc'["main"] = "idle"
    /\ (cstep'.op = "write_error" /\ "write" \in pending)
       => /\ pc'["io"] = "k_lock"
          /\ pc["io"] = "run"

\* C17: sendFrame and sendControlMessage return false at once and issue no
\* write whenever the client is not Connected; when it is Connected they go
\* on to issue an asynchronous write and return true; a write that fails
\* makes its completion handler enter cleanupConnection.
C17_SendRefusedUnlessConnected == [][C17_Step]_vars

\* A send on a connected client has issued its write and returned true.
C17_Witness ==
    /\ cstep.t = "main"
    /\ cstep.op \in SendOps
    /\ cstep.ret = "true"
    /\ "write" \in pending
    /\ pc["main"] = "idle"
    /\ ~crashed

\* A write has failed and its handler has entered the teardown.
C17_WitnessWriteFailed ==
    /\ cstep.op = "write_error"
    /\ pc["io"] = "k_lock"
    /\ ~crashed

\* A send on a client that is not connected has returned false.
C17_WitnessRefused ==
    /\ cstep.op \in SendOps
    /\ cstep.ret = "false"
    /\ pc["main"] = "idle"
    /\ "write" \notin pending

\* -------------------------------------------------------------- C18
\* The read handler of the I/O thread has handled a frame on a client that
\* is Connected.
C18_Handled ==
    /\ cstep'.op = "read"
    /\ "read" \in pending
    /\ Connected(Client)

C18_Step ==
    C18_Handled =>
       /\ cstep'.frame = "REQUEST_ALIAS"
          => /\ "write" \in pending'
             /\ cstep'.ret = "true"
             /\ cstep'.alias = m_alias
             /\ configuredFps' = configuredFps
       /\ cstep'.frame = "SET_FPS"
          => /\ configuredFps' = cstep'.fps
             /\ cstep'.ret = "callback"
             /\ pending' = pending
       /\ cstep'.frame \notin {"REQUEST_ALIAS", "SET_FPS"}
          => /\ configuredFps' = configuredFps
             /\ pending' = pending
       /\ "read" \in pending'
       /\ Connected(Client)'
       /\ pc'["io"] = "run"

\* C18: while the client is Connected, every REQUEST_ALIAS frame read is
\* answered by a write of an ALIAS message carrying m_alias, every SET_FPS
\* frame read stores its rate as the configured rate and invokes the
\* registered callback, every other frame changes nothing, and after each
\* handled frame the next read is armed.
C18_ControlFramesHandledAndReadRearmed == [][C18_Step]_vars

\* A REQUEST_ALIAS has been answered with a configured alias, after a
\* SET_FPS has changed the configured rate: the read loop has handled more
\* than one frame.
C18_Witness ==
    /\ cstep.op = "read"
    /\ cstep.frame = "REQUEST_ALIAS"
    /\ cstep.ret = "true"
    /\ cstep.alias = m_alias
    /\ m_alias # ""
    /\ configuredFps # 0
    /\ "read" \in pending
    /\ Connected(Client)

\* -------------------------------------------------------------- C21
\* The ClientModel row of a registered session.
EntryOf(clients, id) == clients[indexOfClient(clients, id) + 1]

\* m is x = frames * 1000 / elapsed rounded to the nearest integer, halves
\* upwards: m - 1/2 <= x < m + 1/2.
IsRounded(m, frames, elapsed) ==
    /\ 2 * elapsed * m - elapsed <= 2 * frames * 1000
    /\ 2 * frames * 1000 < 2 * elapsed * m + elapsed

\* What the measurement window of row e becomes when a frame with
\* timestamp t is handled; the session has had no frame before when no
\* last-frame time is recorded.
C21_Window(e, f, t) ==
    LET first == e.lastFrameTsMs = 0
        opened == IF first THEN t ELSE e.windowStartMs
        frames == (IF first THEN 0 ELSE e.framesInWindow) + 1
    IN /\ f.lastFrameTsMs = t
       /\ IF t - opened >= 1000
          THEN /\ IsRounded(f.measuredFps, frames, t - opened)
               /\ f.windowStartMs = t
               /\ f.framesInWindow = 0
          ELSE /\ f.measuredFps = e.measuredFps
               /\ f.windowStartMs = opened
               /\ f.framesInWindow = frames

C21_Step ==
    (call'.op = "handle_data" /\ Registered(call'.id))
    => /\ Len(m_clients') = Len(m_clients)
       /\ \A i \in 1..Len(m_clients) :
             IF m_clients[i].id = call'.id
             THEN /\ C21_Window(m_clients[i], m_clients'[i], now')
                  /\ m_clients'[i].id = m_clients[i].id
                  /\ m_clients'[i].status = m_clients[i].status
             ELSE m_clients'[i] = m_clients[i]

\* C21: every data frame with timestamp t handled for a session, Active or
\* not, starts the window at t with no frames if it is the session's first,
\* counts the frame and records t as last-frame time, and then, if
\* t - window_start >= 1000, publishes round(frames * 1000 / (t -
\* window_start)) and restarts the window at t with no frames, and
\* otherwise leaves the measured rate and the window start alone.
C21_WindowUpdatedPerFrame == [][C21_Step]_vars

\* A frame of a session that is not Active has closed a window of 32 frames
\* in 1023 ms and published 31.
C21_Witness ==
    /\ call.op = "handle_data"
    /\ Registered(call.id)
    /\ call.id # m_activeClientId
    /\ EntryOf(m_clients, call.id).measuredFps = 31
    /\ EntryOf(m_clients, call.id).windowStartMs = now
    /\ EntryOf(m_clients, call.id).framesInWindow = 0

\* -------------------------------------------------------------- C22
\* The step publishes a measured rate for row i: it handles a frame of that
\* session and closes the window (every frame handled is counted, so the
\* count is 0 afterwards only when the window has just been closed).
C22_Publishes(i) ==
    /\ call'.op = "handle_data"
    /\ call'.id = m_clients[i].id
    /\ m_clients'[i].framesInWindow = 0

C22_Step ==
    /\ Len(m_clients') >= Len(m_clients)
    /\ \A i \in 1..Len(m_clients) :
          /\ C22_Publishes(i)
             => /\ m_clients[i].windowStartMs # 0
                /\ now' - m_clients[i].windowStartMs >= 1000
                /\ m_clients'[i].windowStartMs = now'
          /\ ~C22_Publishes(i)
             => /\ m_clients'[i].measuredFps = m_clients[i].measuredFps
                /\ \/ m_clients'[i].windowStartMs = m_clients[i].windowStartMs
                   \/ /\ m_clients[i].lastFrameTsMs = 0
                      /\ m_clients'[i].windowStartMs = now'
          /\ m_clients'[i].windowStartMs <= now'

\* C22: the published rate of a session changes at most once per second: a
\* publication comes at least 1000 ms after the start of the window it
\* closes, which is the previous publication (or the session's first frame),
\* the next window starts where that one ended, and every step that is not a
\* publication, frames of other sessions and pauses included, leaves the
\* published rate as it was.
C22_PublishedAtMostOncePerSecond == [][C22_Step]_vars

\* The second publication of a session: 31 after a stream of frames 33 ms
\* apart, then, a pause of one second later, 1 for the single frame that
\* ended the pause.
C22_Witness ==
    /\ call.op = "handle_data"
    /\ Registered(call.id)
    /\ now = 3056
    /\ EntryOf(m_clients, call.id).measuredFps = 1
    /\ EntryOf(m_clients, call.id).windowStartMs = now

\* -------------------------------------------------------------- C23
\* Every frame handled so far came 33 ms after the previous reading of the
\* clock, and less than a window's length has passed since construction.
C23_CloseFramesOnly ==
    /\ (now - StartMs) % 33 = 0
    /\ now - StartMs <= 33 * 31

\* Row e has been fed k frames evenly spaced 33 ms apart, the session's
\* first frame being the first of them.
C23_Fed(e, k) ==
    /\ C23_CloseFramesOnly
    /\ e.lastFrameTsMs # 0
    /\ e.lastFrameTsMs - e.windowStartMs = 33 * (k - 1)

\* C23 as stated: once a session has been fed 30 frames evenly spaced 33 ms
\* apart, a measured rate within [28, 32] has been published for it.
C23_ThirtyFramesPublish ==
    \A i \in 1..Len(m_clients) :
       C23_Fed(m_clients[i], 30) => m_clients[i].measuredFps \in 28..32

\* What the code does with such a stream: the frames up to the 31st, 990 ms
\* after the first, are counted and publish nothing; the 32nd, 1023 ms after
\* the first, publishes 31.
C23_AmendedStep ==
    \A i \in 1..Len(m_clients), k \in 1..31 :
       ( /\ C23_Fed(m_clients[i], k)
         /\ call'.op = "handle_data"
         /\ call'.id = m_clients[i].id
         /\ now' = m_clients[i].lastFrameTsMs + 33 )
       => /\ m_clients[i].measuredFps = 0
          /\ m_clients[i].framesInWindow = k
          /\ IF k < 31
             THEN /\ m_clients'[i].framesInWindow = k + 1
                  /\ m_clients'[i].windowStartMs = m_clients[i].windowStartMs
                  /\ m_clients'[i].measuredFps = 0
             ELSE /\ m_clients'[i].measuredFps = 31
                  /\ m_clients'[i].measuredFps \in 28..32
                  /\ now' - m_clients[i].windowStartMs = 1023

\* C23 (amended): feeding a session frames evenly spaced 33 ms apart
\* publishes nothing for the first 31 frames and publishes 31, within
\* [28, 32], with the 32nd frame, 1023 ms after the first.
C23_StreamPublishesWithin2832 == [][C23_AmendedStep]_vars

\* The 32nd frame of a stream that began 33 ms after construction has
\* published 31.
C23_Witness ==
    /\ call.op = "handle_data"
    /\ Registered(call.id)
    /\ now = 2056
    /\ EntryOf(m_clients, call.id).measuredFps = 31
    /\ EntryOf(m_clients, call.id).windowStartMs = now
    /\ EntryOf(m_clients, call.id).framesInWindow = 0

\* -------------------------------------------------------------- C24
\* backoff(attempt) for attempt = 0..8.
C24_Expected == <<1, 2, 4, 8, 16, 30, 30, 30, 30>>

\* The reconnect loop has found the client not running and goes to sleep.
C24_Sleeps ==
    /\ pc["recon"] = "r_check"
    /\ pc'["recon"] = "r_sleep"

C24_Step ==
    C24_Sleeps =>
       /\ cstep'.op = "reconnect_sleep"
       /\ attempt <= 8 => cstep'.fps = C24_Expected[attempt + 1]
       /\ cstep'.fps <= 30
       /\ cstep'.fps = waitSeconds(attempt)
       /\ \A a \in 0..attempt : waitSeconds(a) <= cstep'.fps
       /\ attempt' = attempt

\* C24: before its attempt-th retry the reconnect loop waits
\* min(30, 2^min(attempt, 6)) seconds: 1, 2, 4, 8, 16, 30, 30, 30, 30 for
\* attempt = 0..8, never more than 30, never less than for a smaller
\* attempt, and the same value whenever the attempt is the same.
C24_WaitIsBackoffOfAttempt == [][C24_Step]_vars

\* The loop goes to sleep for 30 s before its retry number 8, and before
\* that the cap has been reached from below.
C24_Witness ==
    /\ cstep.op = "reconnect_sleep"
    /\ attempt = 8
    /\ cstep.fps = 30
    /\ pc["recon"] = "r_sleep"
    /\ waitSeconds(4) = 16

\* -------------------------------------------------------------- C25
\* C25: every Control Message that is serialized and written as a control
\* frame (prefix 0x01) is decoded from the bytes of that frame as a control
\* frame whose message equals the original in every field: type, client_id,
\* fps, quality, alias, reason and timestamp_ms.
C25_RoundTripReproducesEveryField ==
    call.op = "roundtrip" =>
       /\ call.frame[1] = ControlPrefix
       /\ call.decoded.kind = "control"
       /\ call.decoded.msg.type = call.msg.type
       /\ call.decoded.msg.client_id = call.msg.client_id
       /\ call.decoded.msg.fps = call.msg.fps
       /\ call.decoded.msg.quality = call.msg.quality
       /\ call.decoded.msg.alias = call.msg.alias
       /\ call.decoded.msg.reason = call.msg.reason
       /\ call.decoded.msg.timestamp_ms = call.msg.timestamp_ms

\* The scenario {type=SET_FRAME_RATE, fps=24, client_id=7} has been encoded
\* as the six bytes after the prefix and decoded.
C25_Witness ==
    /\ call.op = "roundtrip"
    /\ call.msg = [DefaultMessage EXCEPT !.type = SET_FPS, !.fps = 24,
                                         !.client_id = 7]
    /\ call.frame = <<1, 8, 5, 16, 7, 24, 24>>
    /\ call.decoded.msg = call.msg


\* ------------------------------------------------- server life cycle
StateChanges(log) ==
    {i \in 1..Len(log) : log[i].sig = "serverStateChanged"}

\* C26: start() called while the server is Running causes no server-state
\* transition: the state stays Running and no serverStateChanged is emitted.
C26_Step ==
    (m_serverState = "Running" /\ call'.op = "start")
        => (m_serverState' = "Running" /\ StateChanges(emitted') = {})

C26_StartWhileRunningIsNoOp == [][C26_Step]_vars

\* C27: whenever stop() has completed and the server is Idle, the client
\* model is empty, no session is left and no client is referred to as the
\* active one, however many clients were connected before.
C27_StopLeavesNoClients ==
    (call.op = "stop" /\ m_serverState = "Idle")
        => (rowCount(m_clients) = 0 /\ m_activeClientId = EmptyId)

\* C28: after setFps(v) on a started bridge, configuredFps() returns v.
C28_Step ==
    (m_serverState = "Running" /\ call'.op = "set_frame_rate")
        => m_configuredFps' = call'.fps

C28_SetFpsSetsConfiguredFps == [][C28_Step]_vars

\* ------------------------------------------- teardown under concurrency
\* C29: the stream and the io_context are never accessed after a teardown
\* has freed them: no send reaches its async_write with the stream pointer
\* reset by a teardown that ran on another thread meanwhile.
C29_FreedStreamNeverAccessed == cstep.op # "segfault"

\* A thread that is not the I/O thread holds the mutex in join(), while the
\* I/O thread, inside an error handler, waits for that mutex: neither can
\* ever take another step.
TeardownDeadlocked ==
    /\ ~crashed
    /\ ioThread = "set"
    /\ pc["io"] = "k_lock"
    /\ \E t \in Threads \ {"io"} : pc[t] = "k_join" /\ mtx = t

\* C30: no interleaving of teardowns deadlocks: a teardown on the
\* controlling thread never waits for an I/O thread that waits, in the
\* teardown of an error handler, for the mutex the first one holds.
C30_TeardownNeverDeadlocks == ~TeardownDeadlocked

\* The step in which context t completes a cleanupConnection call.
CleanupCompletes(t) == pc[t] = "k_join" /\ pc'[t] # "k_join" /\ ~crashed'

\* The stream or the io_context is freed in this step.
Frees ==
    \/ ws # "null" /\ ws' = "null"
    \/ ioc # "null" /\ ioc' = "null"

\* C31: a teardown running on the I/O thread neither joins the I/O thread
\* nor frees the stream or the io_context; they are freed only by a teardown
\* on another thread, once the I/O thread (if there is one) has ended and
\* been joined.
C31_Step ==
    /\ CleanupCompletes("io") =>
          /\ ws' = ws /\ ioc' = ioc /\ ioThread' = ioThread
          /\ pc'["io"] = "run"
    /\ Frees =>
          \E t \in Threads \ {"io"} :
             /\ CleanupCompletes(t)
             /\ ioThread = "set" => pc["io"] = "done"
             /\ ws' = "null" /\ ioc' = "null" /\ ioThread' = "null"

C31_IoThreadTeardownFreesNothing == [][C31_Step]_vars

\* The I/O thread has completed a teardown inside an error handler and is
\* back in io_context::run with the stream and the io_context in place;
\* and a helper's teardown has freed them after the I/O thread ended.
C31_Witness ==
    /\ cstep.op = "cleanup" /\ cstep.t = "io"
    /\ pc["io"] = "run" /\ ioThread = "set"
    /\ ws = "closed" /\ ioc = "stopped"

C31_WitnessFreed ==
    /\ cstep.op = "cleanup" /\ cstep.t = "helper"
    /\ established /\ ws = "null" /\ ioc = "null" /\ ioThread = "null"

\* C32: the helper spawned when an I/O thread exits only completes the
\* teardown of the connection whose loop exited: its cleanupConnection never
\* finds (and clears) the running flag of a connection that a later
\* connectToServer has set up, nor closes or stops that connection's stream
\* and io_context.  (running is set only by connectToServer, and an I/O
\* thread exits only after a teardown has cleared it.)
C32_Step ==
    (pc["helper"] = "k_lock" /\ pc'["helper"] = "k_stop")
        => (~running /\ ws \notin {"fresh", "open"} /\ ioc # "live")

C32_HelperLeavesLaterConnectionAlone == [][C32_Step]_vars

\* ------------------------------------------------- the reconnect loop
\* C33: at most one reconnect loop runs at any time, however many teardowns
\* complete and on whichever threads, and the reconnecting flag is set
\* exactly while a loop is running.
C33_SingleReconnectLoop ==
    ~crashed =>
       /\ loops <= 1
       /\ reconnecting <=> loops = 1
       /\ reconnecting <=> pc["recon"] # "none"

\* A teardown has completed on the helper thread while the loop launched
\* by an earlier teardown is asleep: no second loop.
C33_Witness ==
    /\ cstep.op = "cleanup" /\ cstep.t = "helper"
    /\ posted >= 2
    /\ reconnecting /\ loops = 1 /\ pc["recon"] = "r_sleep"

\* A connectToServer call of context t returns false in this step.
ConnectFails(t) ==
    /\ pc[t] \in {"c_start", "k_join"}
    /\ pc'[t] \in {"idle", "r_check"}
    /\ cstep'.op = "connect" /\ cstep'.ret = "false"

\* The attempt counter goes back to 0 in this step.
AttemptReset == attempt > 0 /\ attempt' = 0

\* C34: the attempt counter is incremented by every failed or aborted
\* connection attempt and goes back to 0 only once a connection has
\* succeeded.
C34_Step ==
    /\ \A t \in Callers : ConnectFails(t) => attempt' = attempt + 1
    /\ AttemptReset => established

C34_AttemptCountsFailuresSinceSuccess == [][C34_Step]_vars

\* The second half on its own: the counter is not reset while no
\* connection has ever succeeded.
C34_ResetOnlyAfterSuccess == [][AttemptReset => established]_vars

\* --------------------------------------------- who touches the stream
\* The I/O thread is inside io_context::run with operations outstanding on
\* the stream, whose intermediate and completion handlers it runs.
IoBusy == pc["io"] = "run" /\ ioc = "live" /\ pending # {}

\* Context t calls into the stream in this step: it closes it, or starts an
\* asynchronous operation on it.
OperatesOnStream(t) ==
    /\ cstep'.t = t /\ cstep' # cstep /\ ~crashed'
    /\ \/ ws = "open" /\ ws' = "closed"
       \/ pending' \ pending # {}

\* C35: connect, the sends and disconnect, called from the controlling
\* thread, hand their work on the stream to the I/O thread: no thread but
\* the I/O thread calls into the stream while the I/O thread is operating
\* on it.
C35_Step == \A t \in Threads \ {"io"} : OperatesOnStream(t) => ~IoBusy

C35_OnlyIoThreadOperatesOnStream == [][C35_Step]_vars

\* A connectToServer call of context t returns true in this step.
ConnectSucceeds(t) ==
    /\ pc[t] \in {"idle", "r_sleep", "c_wait"}
    /\ pc'[t] \in {"idle", "r_exit"}
    /\ cstep'.op = "connect" /\ cstep'.t = t /\ cstep'.ret = "true"

\* C36: whenever connectToServer returns true the client is connected: the
\* handshake of the current stream has completed and its read loop is
\* armed.
C36_Step ==
    \A t \in Callers :
       ConnectSucceeds(t) =>
          /\ running' /\ ws' = "open"
          /\ "handshake" \notin pending' /\ "read" \in pending'

C36_SuccessMeansConnected == [][C36_Step]_vars

\* A send function of the application returns false at its entry test.
RefusedSend ==
    cstep'.op \in SendOps /\ cstep'.ret = "false" /\ cstep'.t = "main"

\* C37: a send that fails because the client is not connected changes
\* nothing: it does not clear running while a connectToServer is in its
\* handshake, and starts no teardown and no reconnect loop.
C37_Step ==
    RefusedSend =>
       UNCHANGED <<running, reconnecting, ws, ioc, ioThread, mtx, pc, ccRet,
                   pending, hs, helpers, attempt, loops, posted, tornDown>>

C37_RefusedSendChangesNothing == [][C37_Step]_vars

\* ------------------------------------------------- data frames
\* C38 as stated: the frame written for any payload p is classified as a
\* data frame whose image payload is p, whatever the first byte of p.
C38_AnyPayloadSurvives ==
    call.op = "data_roundtrip" =>
       /\ call.decoded.kind = "data"
       /\ call.decoded.payload = call.payload

\* C38, amended: the frame written for a payload p that is not empty and
\* whose first byte is neither 0x01 nor 0x00 is classified as a data frame
\* whose image payload is p.  A payload that starts with 0x01 is taken for
\* a control frame, one that starts with 0x00 loses that byte, and an empty
\* one is dropped.
C38_UnprefixedPayloadSurvives ==
    call.op = "data_roundtrip" =>
       /\ call.frame = call.payload
       /\ IF call.payload = <<>>
          THEN call.decoded.kind = "none"
          ELSE IF call.payload[1] = ControlPrefix
          THEN call.decoded.kind # "data"
          ELSE /\ call.decoded.kind = "data"
               /\ call.decoded.payload =
                     IF call.payload[1] = ImagePrefix
                     THEN Tail(call.payload) ELSE call.payload

C38_Witness ==
    /\ call.op = "data_roundtrip"
    /\ call.payload = <<JpegFirstByte, ImagePrefix>>
    /\ call.decoded.kind = "data"
    /\ call.decoded.payload = call.payload

\* ------------------------------------------------- repeated ALIAS
\* The step handles an ALIAS message of a registered session that carries
\* the alias already stored for it.
C39_Handled ==
    /\ call'.op = "receive"
    /\ received'.first = ControlPrefix
    /\ ParseFromArray(received').type = "ALIAS"
    /\ ParseFromArray(received').alias # ""
    /\ Registered(call'.id)
    /\ EntryOf(m_clients, call'.id).alias = ParseFromArray(received').alias

Announcements(log) ==
    {i \in 1..Len(log) : log[i].sig \in {"ClientConnected", "clientConnectedWithAlias"}}

\* C39 as stated: handling an ALIAS message that carries the alias the
\* session already has changes no registry state and surfaces no further
\* "producer connected" notification.
C39_StatedStep ==
    C39_Handled =>
       /\ UNCHANGED ProgramVars
       /\ Announcements(emitted') = {}

C39_RepeatedAliasIsSilent == [][C39_StatedStep]_vars

\* C39, amended: handling an ALIAS message that carries the alias the
\* session already has changes no registry state and writes nothing, and
\* surfaces, after the session's own report of the message, the "producer
\* connected" notification once more, with that alias.
C39_AmendedStep ==
    C39_Handled =>
       /\ UNCHANGED ProgramVars
       /\ sent' = <<>>
       /\ emitted' =
             <<Sig("controlMessageReceived", call'.id, 0, "ALIAS"),
               Sig("ClientConnected", call'.id, 0, ParseFromArray(received').alias),
               Sig("clientConnectedWithAlias", call'.id, 0,
                   ParseFromArray(received').alias)>>

C39_RepeatedAliasAnnouncedAgain == [][C39_AmendedStep]_vars

\* The active session, whose alias is "cam", has reported "cam": it is
\* announced, with no change of the active client's alias signalled.
C39_Witness ==
    /\ call.op = "receive"
    /\ received.first = ControlPrefix
    /\ ParseFromArray(received) = ControlMessage("ALIAS", "cam", 0)
    /\ call.id = m_activeClientId
    /\ Registered(call.id)
    /\ EntryOf(m_clients, call.id).alias = "cam"
    /\ emitted = <<Sig("controlMessageReceived", call.id, 0, "ALIAS"),
                   Sig("ClientConnected", call.id, 0, "cam"),
                   Sig("clientConnectedWithAlias", call.id, 0, "cam")>>

\* ------------------------------------------- rate frames of an admission
\* The SET_FRAME_RATE frames written to session `id` in the log of one
\* operation.
RateFrames(log, id) ==
    {i \in 1..Len(log) : log[i].to = id /\ log[i].type = "SET_FPS" /\ log[i].ok}

\* C40: the number of SET_FRAME_RATE frames sent to a newly admitted sole
\* session during its admission is exactly 1 when a global frame rate is
\* configured and exactly 0 when none is (configured rate 0); no
\* SET_FRAME_RATE carrying fps 0 is sent as a side effect of admit.
C40_Step ==
    ( /\ call'.op = "admit"
      /\ Len(m_clients) = 0
      /\ m_activeClientId = EmptyId
      /\ \A i \in 1..Len(sent') : sent'[i].ok ) =>
       /\ Cardinality(RateFrames(sent', call'.id))
             = IF m_configuredFps > 0 THEN 1 ELSE 0
       /\ \A i \in RateFrames(sent', call'.id) : sent'[i].fps # 0

C40_OneRateFramePerSoleAdmission == [][C40_Step]_vars

====
